---- MODULE Spec2Model ----
(***************************************************************************)
(* A model of the pawzart control-enhancement pipeline: the adaptive       *)
(* motion filter, the phase synchronizer, the emergent coordinator, the    *)
(* energy path planner and the orchestrator that composes them per tick.   *)
(*                                                                         *)
(* JavaScript numbers are modelled as fixed-point integers: the integer n  *)
(* stands for the real n / Scale.  Products are rescaled with RDiv, which  *)
(* rounds to nearest.  NaN (and arithmetic on undefined) is the sentinel   *)
(* NaN, which every arithmetic operator propagates.                        *)
(*                                                                         *)
(* Each component has its own specification (SpecFilter, SpecSync, ...)    *)
(* over its own variables; the other components' variables stay put.       *)
(***************************************************************************)
EXTENDS Integers, Sequences, FiniteSets, TLC

VARIABLES
    \* ---- adaptive motion filter (one instance) ----
    fVariant,     \* "ema": part_006, "avg": part_001
    fOpts,        \* opts: [windowSize, gain (percent), noiseSigma (fixed-point)]
    hist,         \* the closure's rolling history buffer
    fRaw,         \* argument of the last call
    fOut,         \* value returned by the last call
    fPrevLen,     \* length of the argument of the call before the last (-1: none)
    fCalls,       \* number of calls made on the instance
    fRun,         \* the number of calls in a row, up to the last, with the same raw
    \* ---- phase synchronizer (one instance) ----
    sKind,        \* "tempo1": part_004 l.1-155, "tempo2": l.170-275, "pll2": l.282-311
    sConfig,      \* config: [Kp, Ki, maxAdjust]
    syncState,    \* state: [errorIntegral, lastBeatTime, robotPhase, robotFreq, enabled]
    sLast,        \* the last operation called on the instance
    sErr,         \* master - slave of the last computeAdjustment
    sRet,         \* value returned by the last computeAdjustment
    sFreqBefore,  \* robotFreq when the last computeAdjustment was entered
    sCalls,       \* number of calls made on the instance
    \* ---- emergent coordinator (one instance) ----
    cConfig,      \* config: [couplingStrength, adaptationRate, predictionHorizon,
                  \*          energyThreshold]
    cState,       \* state: [phaseMemory, energyLandscape, stablePoints, couplingMatrix]
    cPhases,      \* phases extracted by the last update
    cTargets,     \* target phases computed by the last update
    cReturn,      \* the last update's return value: each agent's offset
    cUpdates,     \* number of update calls (stands for state.lastUpdate)
    \* ---- energy path planner (one instance) ----
    pState,       \* state: [potentialField, flowLines, obstacles, targets,
                  \*         lastFieldUpdate]
    pPlan,        \* the value the last planPath returned
    pReached,     \* did the search of the last planPath come within the goal tolerance
    pPath,        \* the path the search of the last planPath built, before smoothPath
    pOutcome,     \* of the last call: "none", "thrown" (planPath threw), "returned"
    pModel,       \* the robotModel given to the last planPath
    pCalls,       \* number of calls made on the instance
    \* ---- orchestrator (the page: RoboPianistDemo) ----
    oEnh,         \* enhancements: the five enable flags
    oSong,        \* pianoControl: the time of each loaded frame (<<>>: not loaded)
    oPath,        \* go2Path and go2PathIndex: [length, index] (length 0: null)
    oCtrl,        \* simulation.ctrl() per robot: [frame, stages applied]
    oMetrics,     \* [frameCount, filterActive] of the metrics
    oTime,        \* mujoco_time, in timesteps
    oTick,        \* the last loop iteration: [thrown, fault, frame, written, stepped]
    oCalls,       \* number of handlers run
    oNow,         \* Date.now() of the running handler, in seconds
    oLastPathUpdate,  \* this.lastPathUpdate
    oPlans,       \* the planPath calls made: [at, handler]
    \* ---- control buffer (simulation.ctrl() / mjData.ctrl) ----
    bVariant,     \* "part_000": l.278-293, "part_003": l.1156-1178
    bCtrl,        \* the buffer: for each index the number of the call that wrote it
    bLast,        \* the last call: [robot, length of the controls]
    bCalls,       \* number of setRobotControls calls
    \* ---- trajectory lookup ----
    lSeq,         \* the sequence: the time of each sample
    lTime,        \* the query time of the last getControlFrame
    lRet,         \* its return value: [index, time] (index 0: null)
    lCalls,       \* number of getControlFrame calls
    \* ---- expressive dynamics ----
    eVariant,     \* "first": part_005 l.14-137, "second": l.169-301
    eConfig,      \* the runtime parameters: [rubato, velscale, phrase]
    eRng,         \* where the generator of the last call stopped
    eLog          \* the calls made: [sequence, seed, phrases, enhanced]

filterVars == <<fVariant, fOpts, hist, fRaw, fOut, fPrevLen, fCalls, fRun>>

syncVars == <<sKind, sConfig, syncState, sLast, sErr, sRet, sFreqBefore, sCalls>>

coordVars == <<cConfig, cState, cPhases, cTargets, cReturn, cUpdates>>

plannerVars == <<pState, pPlan, pReached, pPath, pOutcome, pModel, pCalls>>

orchVars == <<oEnh, oSong, oPath, oCtrl, oMetrics, oTime, oTick, oCalls, oNow,
              oLastPathUpdate, oPlans>>

bufferVars == <<bVariant, bCtrl, bLast, bCalls>>

lookupVars == <<lSeq, lTime, lRet, lCalls>>

dynamicsVars == <<eVariant, eConfig, eRng, eLog>>

vars == <<filterVars, syncVars, coordVars, plannerVars, orchVars, bufferVars,
          lookupVars, dynamicsVars>>

----------------------------------------------------------------------------
(* Fixed-point arithmetic *)

Scale == 10000

NaN == -999999999

Abs(x) == IF x < 0 THEN -x ELSE x

\* a / b rounded to nearest, b > 0
RDiv(a, b) == (a + b \div 2) \div b

IsNum(x) == x # NaN

NAdd(a, b) == IF a = NaN \/ b = NaN THEN NaN ELSE a + b

\* (ka * a + kb * b) / d with NaN propagated
NMix(ka, a, kb, b, d) ==
    IF a = NaN \/ b = NaN THEN NaN ELSE RDiv(ka * a + kb * b, d)

\* v[i], or undefined (NaN in arithmetic) past the end of the array
At(v, i) == IF i \in 1..Len(v) THEN v[i] ELSE NaN

Min(a, b) == IF a < b THEN a ELSE b

Max(a, b) == IF a > b THEN a ELSE b

\* a * b of two fixed-point numbers; large operands are multiplied limb by
\* limb so that no intermediate product leaves the 32-bit integers of the
\* model checker (both branches give the same value)
FMul(a, b) ==
    LET sgn == IF (a < 0) = (b < 0) THEN 1 ELSE -1
        x   == Abs(a)
        y   == Abs(b)
    IN  IF x <= 46000 /\ y <= 46000
        THEN sgn * RDiv(x * y, Scale)
        ELSE sgn * ((x \div Scale) * (y \div Scale) * Scale
                    + (x \div Scale) * (y % Scale) + (x % Scale) * (y \div Scale)
                    + RDiv((x % Scale) * (y % Scale), Scale))

\* JavaScript's a % m: the remainder takes the sign of the dividend
JsRem(a, m) == IF a >= 0 THEN a % m ELSE -((-a) % m)

Pi == 31416

TwoPi == 2 * Pi

HalfPi == Pi \div 2

RECURSIVE NSum(_, _)
NSum(s, i) ==
    IF s = <<>> THEN 0 ELSE NAdd(At(Head(s), i), NSum(Tail(s), i))

----------------------------------------------------------------------------
(* Adaptive motion filter: src/unnamed/part_006 (EMA) and part_001 (mean)  *)

\* bounds of the filter model
MaxFilterCalls == 5
ZMax == 4

\* window sizes, gains (percent) and noise scales the instance is built with
FilterWindows == {3, 5}
FilterGains == {90}
FilterSigmas == {0, 500}

\* raw command vectors handed to the filter: every component in [-1, 1]
RawVectors == {<<>>, <<Scale>>, <<-Scale>>, <<Scale, Scale>>}

\* sigma * sqrt(-2 ln U1) * cos(2 pi U2): a normal draw, in units of sigma
GaussDraws == {-ZMax, ZMax}

\* sigma * (U * 2 - 1): a uniform draw in [-sigma, sigma]
UniformDraws == {-1, 1}

\* mutant of HistPush: the eviction test is off by one
HistPushLate(h, v, w) ==
    LET pushed == Append(h, v)
    IN  IF Len(pushed) > w + 1 THEN Tail(pushed) ELSE pushed

\* hist.push(v); if (hist.length > windowSize) hist.shift()
HistPush(h, v, w) ==
    LET pushed == Append(h, v)
    IN  IF Len(pushed) > w THEN Tail(pushed) ELSE pushed

\* an EMA whose weights do not add up to one: alpha = 2 / windowSize
EmaComponentLoose(raw, z, prev, opts) ==
    LET noisy == raw + opts.noiseSigma * z
        ema   == NMix(2, noisy, opts.windowSize - 1, prev, opts.windowSize)
    IN  NMix(opts.gain, ema, 100 - opts.gain, raw, 100)

\* one component of the EMA filter: noise, EMA against prev, gain blend
EmaComponent(raw, z, prev, opts) ==
    LET noisy == raw + opts.noiseSigma * z
        ema   == NMix(2, noisy, opts.windowSize - 1, prev, opts.windowSize + 1)
    IN  NMix(opts.gain, ema, 100 - opts.gain, raw, 100)

\* part_006 filter(raw)
FilterEma(raw, zs) ==
    IF Len(raw) = 0
    THEN /\ fOut' = raw
         /\ hist' = hist
    ELSE IF Len(hist) = 0
    THEN /\ hist' = <<raw>>
         /\ fOut' = raw
    ELSE LET prev == hist[Len(hist)]
             filtered == [i \in 1..Len(raw) |->
                             EmaComponent(raw[i], zs[i], At(prev, i), fOpts)]
         IN  /\ hist' = HistPush(hist, filtered, fOpts.windowSize)
             /\ fOut' = filtered

\* part_001 filter(raw)
FilterAvg(raw, zs) ==
    LET noisy  == [i \in 1..Len(raw) |-> raw[i] + fOpts.noiseSigma * zs[i]]
        h      == HistPush(hist, noisy, fOpts.windowSize)
        smooth == [i \in 1..Len(raw) |->
                      IF NSum(h, i) = NaN THEN NaN ELSE RDiv(NSum(h, i), Len(h))]
    IN  /\ hist' = h
        /\ fOut' = [i \in 1..Len(raw) |->
                       NMix(fOpts.gain, smooth[i], 100 - fOpts.gain, noisy[i], 100)]

Filter ==
    /\ fCalls < MaxFilterCalls
    /\ \E raw \in RawVectors :
       \E zs \in [1..Len(raw) ->
                  IF fVariant = "ema" THEN GaussDraws ELSE UniformDraws] :
          /\ IF fVariant = "ema" THEN FilterEma(raw, zs) ELSE FilterAvg(raw, zs)
          /\ fRaw' = raw
          /\ fPrevLen' = IF fCalls = 0 THEN -1 ELSE Len(fRaw)
          /\ fRun' = IF fCalls > 0 /\ raw = fRaw THEN fRun + 1 ELSE 1
    /\ fCalls' = fCalls + 1
    /\ UNCHANGED <<fVariant, fOpts>>
    /\ UNCHANGED <<syncVars, coordVars, plannerVars, orchVars, bufferVars,
                 lookupVars,
                   dynamicsVars>>

InitFilter ==
    /\ fVariant \in {"ema", "avg"}
    /\ fOpts \in [windowSize : FilterWindows, gain : FilterGains,
                  noiseSigma : FilterSigmas]
    /\ hist = <<>>
    /\ fRaw = <<>>
    /\ fOut = <<>>
    /\ fPrevLen = -1
    /\ fCalls = 0
    /\ fRun = 0

NextFilter == Filter

----------------------------------------------------------------------------
(* Phase synchronizer: src/unnamed/part_004 *)

\* bound of the synchronizer model
MaxSyncCalls == 4

\* config.Kp, config.Ki and config.maxAdjust (default 0.03; any number can be
\* given by the maxAdj runtime parameter or the options)
SyncKps == {5000}
SyncKis == {1000}
SyncMaxAdjusts == {300, 3000}

\* phases handed in by the callers, time steps and beat timestamps
PhaseInputs == {-HalfPi, 0, HalfPi}
DtInputs == {20}
BeatTimes == {2500, 5000}

DefaultFreq == 20000
MinFreq == 5000
MaxFreq == 40000

FreshSyncState ==
    [errorIntegral |-> 0, lastBeatTime |-> 0, robotPhase |-> 0,
     robotFreq |-> DefaultFreq, enabled |-> TRUE]

\* while (e > PI) e -= 2 PI; while (e < -PI) e += 2 PI
RECURSIVE WrapLoop(_)
WrapLoop(e) ==
    IF e > Pi THEN WrapLoop(e - TwoPi)
    ELSE IF e < -Pi THEN WrapLoop(e + TwoPi)
    ELSE e

\* ((e + PI) % (2 PI)) - PI
WrapRem(e) == JsRem(e + Pi, TwoPi) - Pi

\* Math.max(-1, Math.min(1, errorIntegral))
ClampIntegral(x) == Max(-Scale, Min(Scale, x))

\* part_004 l.51-83: updatePhaseSync of the first variant
UpdatePhaseSync1(st, cfg, targetPhase, dt) ==
    LET phaseError  == WrapRem(targetPhase - st.robotPhase)
        integral    == ClampIntegral(st.errorIntegral + FMul(phaseError, dt))
        freqAdjust  == FMul(cfg.Kp, phaseError) + FMul(cfg.Ki, integral)
        maxChange   == FMul(st.robotFreq, cfg.maxAdjust)
        clamped     == Max(-maxChange, Min(maxChange, freqAdjust))
        freq        == st.robotFreq + clamped
    IN  [st EXCEPT !.errorIntegral = integral,
                   !.robotFreq = freq,
                   !.robotPhase = JsRem(st.robotPhase + FMul(freq, dt), TwoPi)]

\* Math.max(0.5, Math.min(4.0, f))
ClampFreq(x) == Max(MinFreq, Min(MaxFreq, x))

\* part_004 l.206-231: updatePhaseSync of the second variant (noiseLevel 0)
UpdatePhaseSync2(st, cfg, targetPhase, dt) ==
    LET phaseError == WrapLoop(targetPhase - st.robotPhase)
        integral   == st.errorIntegral + FMul(phaseError, dt)
        adjustment == FMul(cfg.Kp, phaseError) + FMul(cfg.Ki, integral)
        clamped    == Max(-cfg.maxAdjust, Min(cfg.maxAdjust, adjustment))
        freq       == ClampFreq(st.robotFreq + clamped)
    IN  [st EXCEPT !.errorIntegral = integral,
                   !.robotFreq = freq,
                   !.robotPhase =
                       JsRem(st.robotPhase + FMul(FMul(freq, dt), TwoPi), TwoPi)]

UpdatePhaseSyncOf(kind, st, cfg, targetPhase, dt) ==
    IF kind = "tempo1" THEN UpdatePhaseSync1(st, cfg, targetPhase, dt)
    ELSE UpdatePhaseSync2(st, cfg, targetPhase, dt)

\* reset(): zeroes the integral and the phase, restores 2 Hz
ResetState(st) ==
    [st EXCEPT !.errorIntegral = 0, !.robotPhase = 0, !.robotFreq = DefaultFreq]

SyncStep(op) ==
    /\ sCalls < MaxSyncCalls
    /\ sCalls' = sCalls + 1
    /\ sLast' = op
    /\ UNCHANGED <<sKind, sConfig>>
    /\ UNCHANGED <<filterVars, coordVars, plannerVars, orchVars, bufferVars,
                 lookupVars,
                   dynamicsVars>>

\* updatePhaseSync(targetPhase, dt), both setupTempoSync variants
updatePhaseSync ==
    /\ sKind \in {"tempo1", "tempo2"}
    /\ \E targetPhase \in PhaseInputs, dt \in DtInputs :
          syncState' = UpdatePhaseSyncOf(sKind, syncState, sConfig, targetPhase, dt)
    /\ UNCHANGED <<sErr, sRet, sFreqBefore>>
    /\ SyncStep("updatePhaseSync")

\* onBeat(timestamp), both setupTempoSync variants
onBeat ==
    /\ sKind \in {"tempo1", "tempo2"}
    /\ \E timestamp \in BeatTimes :
          IF ~syncState.enabled
          THEN syncState' = syncState
          ELSE LET beatPhase == JsRem(FMul(timestamp, TwoPi), TwoPi)
                   st == UpdatePhaseSyncOf(sKind, syncState, sConfig, beatPhase,
                                           timestamp - syncState.lastBeatTime)
               IN  syncState' = [st EXCEPT !.lastBeatTime = timestamp]
    /\ UNCHANGED <<sErr, sRet, sFreqBefore>>
    /\ SyncStep("onBeat")

\* reset(): of setupTempoSync, or of the second createPhaseSync
reset ==
    /\ syncState' = IF sKind = "pll2"
                    THEN [syncState EXCEPT !.errorIntegral = 0]
                    ELSE ResetState(syncState)
    /\ UNCHANGED <<sErr, sRet, sFreqBefore>>
    /\ SyncStep("reset")

\* setEnabled(enabled), both setupTempoSync variants
setEnabled ==
    /\ sKind \in {"tempo1", "tempo2"}
    /\ \E e \in BOOLEAN :
          syncState' = IF e THEN [syncState EXCEPT !.enabled = TRUE]
                       ELSE ResetState([syncState EXCEPT !.enabled = FALSE])
    /\ UNCHANGED <<sErr, sRet, sFreqBefore>>
    /\ SyncStep("setEnabled")

\* part_004 l.148-152: the value computeAdjustment returns
AdjustmentOf1(st) == st.robotFreq - DefaultFreq

\* part_004 l.294-306: computeAdjustment of the second createPhaseSync
ComputeAdjustment2(st, cfg, masterPhase, slavePhase, dt) ==
    LET phaseError == WrapLoop(masterPhase - slavePhase)
        integral   == st.errorIntegral + FMul(phaseError, dt)
        adjustment == FMul(cfg.Kp, phaseError) + FMul(cfg.Ki, integral)
    IN  [state |-> [st EXCEPT !.errorIntegral = integral],
         ret   |-> Max(-cfg.maxAdjust, Min(cfg.maxAdjust, adjustment))]

\* computeAdjustment(masterPhase, slavePhase, dt), both createPhaseSync variants
computeAdjustment ==
    /\ sKind \in {"tempo1", "pll2"}
    /\ \E masterPhase \in PhaseInputs, slavePhase \in PhaseInputs, dt \in DtInputs :
          /\ sErr' = masterPhase - slavePhase
          /\ sFreqBefore' = syncState.robotFreq
          /\ IF sKind = "tempo1"
             THEN LET st == UpdatePhaseSync1(
                                [syncState EXCEPT !.robotPhase = slavePhase],
                                sConfig, masterPhase, dt)
                  IN  /\ syncState' = st
                      /\ sRet' = AdjustmentOf1(st)
             ELSE LET r == ComputeAdjustment2(syncState, sConfig,
                                              masterPhase, slavePhase, dt)
                  IN  /\ syncState' = r.state
                      /\ sRet' = r.ret
    /\ SyncStep("computeAdjustment")

\* the convergence scenario: 1.5 s of ticks of 0.002 s
RunTicks == 750

\* the beat phase (t * 4 PI) % (2 PI) of a 2.0 Hz master at tick k, t = 0.002 k
BeatPhaseAt(k) == JsRem(RDiv(k * 8 * Pi, 1000), TwoPi)

\* one tick of the scenario: updatePhaseSync(beatPhase, 0.002)
tickInRun ==
    /\ sCalls < RunTicks
    /\ sCalls' = sCalls + 1
    /\ sLast' = "updatePhaseSync"
    /\ syncState' = UpdatePhaseSyncOf(sKind, syncState, sConfig,
                                      BeatPhaseAt(sCalls), 20)
    /\ UNCHANGED <<sKind, sConfig, sErr, sRet, sFreqBefore>>
    /\ UNCHANGED <<filterVars, coordVars, plannerVars, orchVars, bufferVars,
                   lookupVars, dynamicsVars>>

\* the scenario's synchronizers: Kp = 0.5, Ki = 0.1, the slave set to 2.3 Hz
InitSyncRun ==
    /\ sKind \in {"tempo1", "tempo2"}
    /\ sConfig = [Kp |-> 5000, Ki |-> 1000, maxAdjust |-> 300]
    /\ syncState = [FreshSyncState EXCEPT !.robotFreq = 23000]
    /\ sLast = "create"
    /\ sErr = 0
    /\ sRet = 0
    /\ sFreqBefore = 23000
    /\ sCalls = 0

NextSyncRun == tickInRun

InitSync ==
    /\ sKind \in {"tempo1", "tempo2", "pll2"}
    /\ sConfig \in [Kp : SyncKps, Ki : SyncKis, maxAdjust : SyncMaxAdjusts]
    /\ syncState = FreshSyncState
    /\ sLast = "create"
    /\ sErr = 0
    /\ sRet = 0
    /\ sFreqBefore = DefaultFreq
    /\ sCalls = 0

NextSync ==
    \/ updatePhaseSync
    \/ onBeat
    \/ reset
    \/ setEnabled
    \/ computeAdjustment

----------------------------------------------------------------------------
(* Emergent coordinator: src/examples/utils/emergentCoordination.js *)

\* bound of the coordinator model
MaxCoordUpdates == 3

\* Math.cos on [0, pi/2], by its Taylor polynomial up to x^8
CosQ(x) ==
    LET x2 == FMul(x, x)
        t1 == x2 \div 2
        t2 == RDiv(FMul(t1, x2), 12)
        t3 == RDiv(FMul(t2, x2), 30)
        t4 == RDiv(FMul(t3, x2), 56)
    IN  Scale - t1 + t2 - t3 + t4

\* Math.cos
Cos(x) ==
    IF x = NaN THEN NaN
    ELSE LET y == Abs(x) % TwoPi
             z == IF y > Pi THEN TwoPi - y ELSE y
         IN  IF z > HalfPi THEN -CosQ(Pi - z) ELSE CosQ(z)

\* Math.tanh, by the Pade approximant x (27 + x^2) / (27 + 9 x^2) on [-3, 3]
Tanh(x) ==
    IF x = NaN THEN NaN
    ELSE IF x >= 3 * Scale THEN Scale
    ELSE IF x <= -3 * Scale THEN -Scale
    ELSE LET x2 == FMul(x, x)
         IN  RDiv(FMul(x, 27 * Scale + x2) * 100, (27 * Scale + 9 * x2) \div 100)

\* Math.atan2(y, x) for the leg positions of the model; a joint angle (a
\* number) has no .x and no .y, and Math.atan2(undefined, undefined) is NaN
Atan2(y, x) ==
    IF y = NaN \/ x = NaN THEN NaN
    ELSE IF y = 0 THEN (IF x >= 0 THEN 0 ELSE Pi)
    ELSE IF x = 0 THEN (IF y > 0 THEN HalfPi ELSE -HalfPi)
    ELSE IF x = y THEN (IF x > 0 THEN Pi \div 4 ELSE -(3 * Pi) \div 4)
    ELSE IF x = -y THEN (IF x > 0 THEN -(Pi \div 4) ELSE (3 * Pi) \div 4)
    ELSE -26779   \* atan2(-1, -2)

RECURSIVE SeqSum(_)
SeqSum(s) == IF s = <<>> THEN 0 ELSE NAdd(Head(s), SeqSum(Tail(s)))

HasNaN(s) == \E i \in 1..Len(s) : s[i] = NaN

\* a < b of two numbers: false when either is NaN
Less(a, b) == a # NaN /\ b # NaN /\ a < b

\* (x % (2 PI) + 2 PI) % (2 PI)
WrapHandPhase(x) == JsRem(JsRem(x, TwoPi) + TwoPi, TwoPi)

\* extractPhase(state), l.95-108
extractPhase(st) ==
    IF st.type = "quadruped"
    THEN LET legs == st.legPositions
             legPhases == [i \in 1..Len(legs) |->
                              NAdd(Atan2(legs[i].y, legs[i].x), (i - 1) * HalfPi)]
         IN  IF HasNaN(legPhases) THEN NaN
             ELSE RDiv(SeqSum(legPhases), Len(legPhases))
    ELSE WrapHandPhase(SeqSum(st.fingerPositions))

\* initialize(numRobots), l.36-43
initialize(numRobots, cfg) ==
    [phaseMemory     |-> [i \in 1..numRobots |-> <<>>],
     energyLandscape |-> <<>>,
     stablePoints    |-> <<>>,
     couplingMatrix  |-> [i \in 1..numRobots |-> [j \in 1..numRobots |->
                             IF i = j THEN Scale ELSE cfg.couplingStrength]]]

MemoryCap == 100

\* phaseMemory[i].push(phase); shift beyond 100, l.59-64
PushMemory(memory, phases) ==
    [i \in 1..Len(memory) |->
        LET m == Append(memory[i], phases[i])
        IN  IF Len(m) > MemoryCap THEN Tail(m) ELSE m]

\* computeSystemEnergy(phases), l.114-140
computeSystemEnergy(phases, st) ==
    LET n == Len(phases)
        c == st.couplingMatrix
        pair(i, j) == FMul(c[i][j], Scale - Cos(Abs(phases[i] - phases[j])))
        pairs == SeqSum([i \in 1..n |->
                     SeqSum([j \in 1..n |-> IF i < j THEN pair(i, j) ELSE 0])])
        moving == Len(st.phaseMemory[1]) > 1
        last(i, k) == st.phaseMemory[i][Len(st.phaseMemory[i]) - k]
        vel(i) == Abs(last(i, 0) - last(i, 1))
        kinetic == IF moving
                   THEN SeqSum([i \in 1..n |-> FMul(1000, FMul(vel(i), vel(i)))])
                   ELSE 0
        bad == \/ HasNaN(phases)
               \/ \E i \in 1..n : HasNaN(c[i])
               \/ moving /\ \E i \in 1..n : last(i, 0) = NaN \/ last(i, 1) = NaN
    IN  IF bad THEN NaN ELSE RDiv(pairs + kinetic, (n * (n - 1)) \div 2)

\* Math.round(p * 10): the phase in tenths of a radian (the key's text)
RoundTenth(p) == IF p = NaN THEN NaN ELSE RDiv(p, Scale \div 10)

\* energyLandscape.set(phaseKey, energy): a Map keeps insertion order
MapSet(m, key, energy) ==
    IF \E k \in 1..Len(m) : m[k].key = key
    THEN [k \in 1..Len(m) |->
             IF m[k].key = key THEN [key |-> key, energy |-> energy] ELSE m[k]]
    ELSE Append(m, [key |-> key, energy |-> energy])

\* computePhaseDistance(key1, key2) > 0.5, on the keys in tenths
FarApart(key1, key2) ==
    /\ ~HasNaN(key1)
    /\ ~HasNaN(key2)
    /\ SeqSum([i \in 1..Len(key1) |->
                  (key1[i] - At(key2, i)) * (key1[i] - At(key2, i))]) > 25

\* Array.prototype.sort by energy (stable), by insertion
RECURSIVE SortByEnergy(_)
SortByEnergy(s) ==
    IF s = <<>> THEN <<>>
    ELSE LET rest == SortByEnergy(SubSeq(s, 1, Len(s) - 1))
             x    == s[Len(s)]
             pos  == Cardinality({k \in 1..Len(rest) : rest[k].energy <= x.energy})
         IN  SubSeq(rest, 1, pos) \o <<x>> \o SubSeq(rest, pos + 1, Len(rest))

RECURSIVE SelectSeq2(_, _, _)
SelectSeq2(s, keep, k) ==
    IF k > Len(s) THEN <<>>
    ELSE (IF s[k] \in keep THEN <<s[k]>> ELSE <<>>) \o SelectSeq2(s, keep, k + 1)

StableCap == 5

\* detectStablePoints(), l.145-171
detectStablePoints(landscape, cfg) ==
    LET isMinimum(e) ==
            \A k \in 1..Len(landscape) :
                \/ landscape[k].key = e.key
                \/ FarApart(e.key, landscape[k].key)
                \/ (landscape[k].energy # NaN /\ e.energy <= landscape[k].energy)
        stable == {landscape[k] : k \in {k \in 1..Len(landscape) :
                      /\ Less(landscape[k].energy, cfg.energyThreshold)
                      /\ isMinimum(landscape[k])}}
        sorted == SortByEnergy(SelectSeq2(landscape, stable, 1))
        kept   == SubSeq(sorted, 1, Min(StableCap, Len(sorted)))
    IN  [k \in 1..Len(kept) |->
            [phases |-> [i \in 1..Len(kept[k].key) |->
                            kept[k].key[i] * (Scale \div 10)],
             energy |-> kept[k].energy]]

\* squared distance of findNearestStablePoint
SqDist(phases, stable) ==
    IF HasNaN(phases) THEN NaN
    ELSE SeqSum([i \in 1..Len(phases) |->
                    FMul(phases[i] - stable.phases[i], phases[i] - stable.phases[i])])

\* findNearestStablePoint(phases), l.268-285: the first of the nearest
RECURSIVE NearestFrom(_, _, _, _)
NearestFrom(phases, points, k, best) ==
    IF k > Len(points) THEN best
    ELSE IF /\ SqDist(phases, points[k]) # NaN
            /\ (best = 0 \/ SqDist(phases, points[k]) < SqDist(phases, points[best]))
         THEN NearestFrom(phases, points, k + 1, k)
         ELSE NearestFrom(phases, points, k + 1, best)

\* the sweep of computeOptimalPhase: delta = -0.5, -0.4, ..., 0.5
SweepSteps == 11

SweepDelta(k) == -5000 + 1000 * (k - 1)

\* phases[robotIndex] = currentPhases[robotIndex] + delta
SweepCandidate(robotIndex, currentPhases, k) ==
    [currentPhases EXCEPT ![robotIndex] = NAdd(@, SweepDelta(k))]

\* if (energy < minEnergy) { minEnergy = energy; optimalPhase = ... }
SweepKeep(best, k, energy, phase) ==
    IF energy # NaN /\ (best.k = 0 \/ energy < best.energy)
    THEN [k |-> k, energy |-> energy, phase |-> phase]
    ELSE best

\* the candidate the sweep keeps: the first of least energy (NaN is never less)
RECURSIVE SweepBest(_, _, _, _, _)
SweepBest(robotIndex, currentPhases, st, k, best) ==
    IF k > SweepSteps THEN best
    ELSE SweepBest(robotIndex, currentPhases, st, k + 1,
                   SweepKeep(best, k,
                             computeSystemEnergy(
                                 SweepCandidate(robotIndex, currentPhases, k), st),
                             SweepCandidate(robotIndex, currentPhases, k)[robotIndex]))

\* optimalPhase = 0.7 * optimalPhase + 0.3 * nearestStable.phases[robotIndex]
BiasToStable(phase, points, nearest, robotIndex) ==
    IF nearest = 0 \/ phase = NaN THEN phase
    ELSE FMul(7000, phase) + FMul(3000, points[nearest].phases[robotIndex])

\* memory[memory.length - 1] - memory[memory.length - 2]
Velocity(memory) ==
    IF memory[Len(memory)] = NaN \/ memory[Len(memory) - 1] = NaN THEN NaN
    ELSE memory[Len(memory)] - memory[Len(memory) - 1]

\* if (memory.length > 2) optimalPhase += velocity * predictionHorizon
Predict(optimal, memory, horizon) ==
    IF Len(memory) > 2
    THEN (IF Velocity(memory) = NaN \/ optimal = NaN THEN NaN
          ELSE optimal + FMul(Velocity(memory), horizon))
    ELSE optimal

\* optimalPhase % (2 PI)
WrapTarget(x) == IF x = NaN THEN NaN ELSE JsRem(x, TwoPi)

\* computeOptimalPhase(robotIndex, currentPhases, dt), l.176-209; the sweep
\* leaves phases[robotIndex] at its last candidate, which is what
\* findNearestStablePoint is given
computeOptimalPhase(robotIndex, currentPhases, st, cfg) ==
    WrapTarget(
        Predict(
            BiasToStable(
                SweepBest(robotIndex, currentPhases, st, 1,
                          [k |-> 0, energy |-> 0,
                           phase |-> currentPhases[robotIndex]]).phase,
                st.stablePoints,
                NearestFrom(SweepCandidate(robotIndex, currentPhases, SweepSteps),
                            st.stablePoints, 1, 0),
                robotIndex),
            st.phaseMemory[robotIndex],
            cfg.predictionHorizon))

\* adaptState(currentState, targetPhase, rate), l.214-231: the offset it sets
adaptState(currentState, targetPhase, rate) ==
    LET currentPhase == extractPhase(currentState)
        phaseDiff == IF targetPhase = NaN \/ currentPhase = NaN THEN NaN
                     ELSE targetPhase - currentPhase
        adaptation == IF phaseDiff = NaN THEN NaN ELSE FMul(Tanh(phaseDiff), rate)
    IN  IF adaptation = NaN THEN NaN
        ELSE IF currentState.type = "quadruped" THEN adaptation
        ELSE FMul(adaptation, 1000)

\* Math.max(0, Math.min(1, c)); NaN goes through both
ClampCoupling(c) == IF c = NaN THEN NaN ELSE Max(0, Min(Scale, c))

\* updateCouplings(phases, energy), l.236-257
updateCouplings(c, phases, energy) ==
    LET n == Len(phases)
        upd(i, j) ==
            IF phases[i] = NaN \/ phases[j] = NaN \/ energy = NaN THEN NaN
            ELSE FMul(100, FMul(Cos(Abs(phases[i] - phases[j])) - Scale \div 2,
                                Scale \div 2 - energy))
        new(i, j) == ClampCoupling(NAdd(c[i][j], upd(i, j)))
    IN  [i \in 1..n |-> [j \in 1..n |->
            IF i < j THEN new(i, j)
            ELSE IF j < i THEN new(j, i)
            ELSE c[i][j]]]

Hand(fingers) ==
    [type |-> "hand", fingerPositions |-> fingers, legPositions |-> <<>>]

Quadruped(legs) ==
    [type |-> "quadruped", fingerPositions |-> <<>>, legPositions |-> legs]

Leg(x, y) == [x |-> x, y |-> y]

\* a leg given as a joint angle, as getGo2LegPositions does
JointAngle == [x |-> NaN, y |-> NaN]

\* the agent-state snapshots handed to update
RobotStateInputs ==
    { <<Hand(<<1000, 1000>>), Hand(<<30000, 30000>>)>>,
      <<Hand(<<1000, 1000>>), Hand(<<2000, 1000>>)>>,
      <<Hand(<<-2000, 1000>>), Hand(<<60000, 2832>>)>>,
      <<Hand(<<1000, 1000>>),
        Quadruped(<<Leg(Scale, 0), Leg(0, -Scale), Leg(-Scale, 0), Leg(0, Scale)>>)>>,
      <<Hand(<<1000, 1000>>),
        Quadruped(<<Leg(-2 * Scale, -Scale), Leg(-2 * Scale, -Scale),
                    Leg(-2 * Scale, -Scale), Leg(-2 * Scale, -Scale)>>)>>,
      <<Hand(<<1000, 1000>>),
        Quadruped(<<JointAngle, JointAngle, JointAngle, JointAngle>>)>> }

\* update(robotStates, dt), l.51-88
UpdateWith(robotStates) ==
    LET numRobots == Len(robotStates)
        st0 == IF cState.couplingMatrix = <<>>
               THEN initialize(numRobots, cConfig) ELSE cState
        phases == [i \in 1..numRobots |-> extractPhase(robotStates[i])]
        st1 == [st0 EXCEPT !.phaseMemory = PushMemory(@, phases)]
        systemEnergy == computeSystemEnergy(phases, st1)
        phaseKey == [i \in 1..numRobots |-> RoundTenth(phases[i])]
        st2 == [st1 EXCEPT !.energyLandscape = MapSet(@, phaseKey, systemEnergy)]
        st3 == [st2 EXCEPT !.stablePoints =
                                detectStablePoints(st2.energyLandscape, cConfig)]
        targets == [i \in 1..numRobots |->
                       computeOptimalPhase(i, phases, st3, cConfig)]
    IN  /\ numRobots = Len(st0.couplingMatrix)
        /\ cPhases' = phases
        /\ cTargets' = targets
        /\ cReturn' = [i \in 1..numRobots |->
                          adaptState(robotStates[i], targets[i],
                                     cConfig.adaptationRate)]
        /\ cState' = [st3 EXCEPT !.couplingMatrix =
                                     updateCouplings(@, phases, systemEnergy)]
        /\ cUpdates' = cUpdates + 1
        /\ UNCHANGED cConfig
        /\ UNCHANGED <<filterVars, syncVars, plannerVars, orchVars, bufferVars,
                       lookupVars,
                   dynamicsVars>>

\* a call update(robotStates, dt) with any of the snapshots
update ==
    /\ cUpdates < MaxCoordUpdates
    /\ \E robotStates \in RobotStateInputs : UpdateWith(robotStates)

\* the length of a long run of the coordinator
MaxRunUpdates == 6

\* the snapshots of the n-th tick of a long run: two hands, the first moving
\* on by 0.2 rad per tick
RunInputs(n) ==
    { <<Hand(<<n * 2000>>), Hand(<<second>>)>> : second \in {1000, 3000} }

\* a call update(robotStates, dt) in a long run
updateInRun ==
    /\ cUpdates < MaxRunUpdates
    /\ \E robotStates \in RunInputs(cUpdates) : UpdateWith(robotStates)

InitCoord ==
    /\ cConfig = [couplingStrength |-> 7000, adaptationRate |-> 500,
                  predictionHorizon |-> 5000, energyThreshold |-> 1000]
    /\ cState = [phaseMemory |-> <<>>, energyLandscape |-> <<>>,
                 stablePoints |-> <<>>, couplingMatrix |-> <<>>]
    /\ cPhases = <<>>
    /\ cTargets = <<>>
    /\ cReturn = <<>>
    /\ cUpdates = 0

NextCoord == update

NextCoordRun == updateInRun

----------------------------------------------------------------------------
(* Energy path planner: src/unnamed/part_007 *)

\* bounds of the planner model: calls of the public interface per behaviour,
\* and config.horizonSteps
MaxPlannerCalls == 3
HorizonSteps == 4

\* config, l.15-23, with pathRes = 0.5 and horizon = HorizonSteps
PlannerConfig ==
    [resolution |-> 5000, horizonSteps |-> HorizonSteps, energyWeight |-> 3000,
     smoothness |-> 8000, fieldDecay |-> 9500, fieldStrength |-> 20000]

NSub(a, b) == IF a = NaN \/ b = NaN THEN NaN ELSE a - b

NMul(a, b) == IF a = NaN \/ b = NaN THEN NaN ELSE FMul(a, b)

\* a / b of two Numbers, digit group by digit group; 0 / 0 is NaN, and so is
\* the model's value of x / 0
FDiv(a, b) ==
    IF a = NaN \/ b = NaN \/ b = 0 THEN NaN
    ELSE LET sgn == IF (a < 0) = (b < 0) THEN 1 ELSE -1
             r1  == (Abs(a) % Abs(b)) * 100
             r2  == (r1 % Abs(b)) * 100
         IN  sgn * ((Abs(a) \div Abs(b)) * Scale + (r1 \div Abs(b)) * 100
                    + r2 \div Abs(b))

RECURSIVE ISqrtFrom(_, _)
ISqrtFrom(n, r) ==
    IF (r + n \div r) \div 2 >= r THEN r ELSE ISqrtFrom(n, (r + n \div r) \div 2)

\* Math.sqrt
Sqrt(x) ==
    IF x = NaN \/ x < 0 THEN NaN
    ELSE IF x = 0 THEN 0
    ELSE IF x < 200000 THEN ISqrtFrom(x * Scale, 46340)
    ELSE 10 * ISqrtFrom(x * 100, 46340)

\* Math.sqrt(a.reduce((sum, c, j) => sum + Math.pow(c - b[j], 2), 0))
Dist(a, b) ==
    Sqrt(SeqSum([j \in 1..Len(a) |->
                    NMul(NSub(a[j], At(b, j)), NSub(a[j], At(b, j)))]))

\* potentialField before initializeField: null
NoField == [data |-> <<>>, dims |-> <<0, 0, 0>>, origin |-> <<0, 0, 0>>,
            resolution |-> 0]

\* Math.ceil(extent / resolution)
CeilDiv(a, b) == -((-a) \div b)

\* initializeField(workspace), l.38-55
NewField(workspace) ==
    LET dims == [d \in 1..3 |->
                    CeilDiv(workspace.max[d] - workspace.min[d],
                            PlannerConfig.resolution)]
    IN  [data |-> [n \in 1..(dims[1] * dims[2] * dims[3]) |-> Scale],
         dims |-> dims, origin |-> workspace.min,
         resolution |-> PlannerConfig.resolution]

\* getFieldValue(i, j, k), l.272-281
getFieldValue(field, i, j, k) ==
    IF \/ i < 0 \/ i >= field.dims[1]
       \/ j < 0 \/ j >= field.dims[2]
       \/ k < 0 \/ k >= field.dims[3]
    THEN 0
    ELSE field.data[1 + i + j * field.dims[1] + k * field.dims[1] * field.dims[2]]

\* one term of the trilinear interpolation: c the position in cell units,
\* b the corner (0 or 1 along each axis)
Corner(field, c, b) ==
    FMul(FMul(FMul(IF b[1] = 1 THEN c[1] % Scale ELSE Scale - (c[1] % Scale),
                   IF b[2] = 1 THEN c[2] % Scale ELSE Scale - (c[2] % Scale)),
              IF b[3] = 1 THEN c[3] % Scale ELSE Scale - (c[3] % Scale)),
         getFieldValue(field, c[1] \div Scale + b[1], c[2] \div Scale + b[2],
                       c[3] \div Scale + b[3]))

\* the corners in the order of the sum: v000, v100, v010, v110, v001, ...
Corners ==
    << <<0, 0, 0>>, <<1, 0, 0>>, <<0, 1, 0>>, <<1, 1, 0>>,
       <<0, 0, 1>>, <<1, 0, 1>>, <<0, 1, 1>>, <<1, 1, 1>> >>

\* the sum of the eight terms
Trilinear(field, c) == SeqSum([n \in 1..8 |-> Corner(field, c, Corners[n])])

\* interpolateFieldValue(pos), l.283-313
interpolateFieldValue(field, pos) ==
    IF HasNaN(SubSeq(pos, 1, 3)) THEN NaN
    ELSE Trilinear(field, [d \in 1..3 |->
                              FDiv(pos[d] - field.origin[d], field.resolution)])

\* (valuePlus - valueMinus) / (2 * eps) along dim, l.320-328
GradientAlong(field, pos, dim) ==
    FDiv(NSub(interpolateFieldValue(field,
                  [pos EXCEPT ![dim] = NAdd(@, PlannerConfig.resolution)]),
              interpolateFieldValue(field,
                  [pos EXCEPT ![dim] = NSub(@, PlannerConfig.resolution)])),
         2 * PlannerConfig.resolution)

\* mag > 0 ? gradient.map(g => g / mag) : [0, 0, 0]
Normalized(gradient, mag) ==
    IF mag # NaN /\ mag > 0
    THEN [d \in 1..3 |-> FDiv(gradient[d], mag)]
    ELSE <<0, 0, 0>>

\* Math.sqrt(gradient.reduce((sum, g) => sum + g * g, 0))
Magnitude(gradient) ==
    Sqrt(SeqSum([d \in 1..3 |-> NMul(gradient[d], gradient[d])]))

\* the gradient and its normalization
NormalizedOf(gradient) == Normalized(gradient, Magnitude(gradient))

\* computePotentialGradient(pos), l.315-334
computePotentialGradient(field, pos) ==
    NormalizedOf([dim \in 1..3 |-> GradientAlong(field, pos, dim)])

\* Math.min of the distances to the obstacles' surfaces; Infinity without any
RECURSIVE MinObsDist(_, _, _, _)
MinObsDist(pos, obstacles, n, least) ==
    IF n > Len(obstacles) THEN least
    ELSE MinObsDist(pos, obstacles, n + 1,
                    [inf |-> FALSE,
                     d |-> IF least.inf
                           THEN Dist(pos, obstacles[n].position) - obstacles[n].radius
                           ELSE Min(least.d, Dist(pos, obstacles[n].position)
                                             - obstacles[n].radius)])

\* minObsDist > 0 ? 1 / (1 + minObsDist) : 10
ObsPotential(least) ==
    IF least.inf THEN 0
    ELSE IF least.d > 0 THEN FDiv(Scale, Scale + least.d)
    ELSE 10 * Scale

\* target.strength / (1 + dist * dist)
TargetPull(pos, target) ==
    FDiv(target.strength,
         Scale + FMul(Dist(pos, target.position), Dist(pos, target.position)))

\* computeLocalPotential(i, j, k, robotModel), l.336-367
computeLocalPotential(st, pos) ==
    ObsPotential(MinObsDist(pos, st.obstacles, 1, [inf |-> TRUE, d |-> 0]))
    - SeqSum([n \in 1..Len(st.targets) |-> TargetPull(pos, st.targets[n])])

\* is the cell of data index n (from 1) an interior cell of the loops l.107-109
Interior(dims, n) ==
    /\ (n - 1) % dims[1] \in 1..(dims[1] - 2)
    /\ ((n - 1) \div dims[1]) % dims[2] \in 1..(dims[2] - 2)
    /\ (n - 1) \div (dims[1] * dims[2]) \in 1..(dims[3] - 2)

\* the position of the cell of data index n
CellPos(field, n) ==
    << field.origin[1] + ((n - 1) % field.dims[1]) * field.resolution,
       field.origin[2] + (((n - 1) \div field.dims[1]) % field.dims[2])
                         * field.resolution,
       field.origin[3] + ((n - 1) \div (field.dims[1] * field.dims[2]))
                         * field.resolution >>

\* the neighbours' sum minus six times the cell, l.113-116
Laplacian(field, i, j, k) ==
    getFieldValue(field, i + 1, j, k) + getFieldValue(field, i - 1, j, k)
    + getFieldValue(field, i, j + 1, k) + getFieldValue(field, i, j - 1, k)
    + getFieldValue(field, i, j, k + 1) + getFieldValue(field, i, j, k - 1)
    - 6 * getFieldValue(field, i, j, k)

\* one iteration of the diffusion, l.105-129; newData is zero outside the loops
DiffusionStep(field, local) ==
    [field EXCEPT !.data =
        [n \in 1..Len(field.data) |->
            IF Interior(field.dims, n)
            THEN FMul(field.data[n], PlannerConfig.fieldDecay)
                 + FMul(FMul(1000, PlannerConfig.fieldStrength),
                        Laplacian(field, (n - 1) % field.dims[1],
                                  ((n - 1) \div field.dims[1]) % field.dims[2],
                                  (n - 1) \div (field.dims[1] * field.dims[2])))
                 + FMul(1000, local[n])
            ELSE 0]]

DiffusionIterations == 10

RECURSIVE Diffuse(_, _, _)
Diffuse(field, local, iter) ==
    IF iter = 0 THEN field ELSE Diffuse(DiffusionStep(field, local), local, iter - 1)

\* addTarget(goal, 10.0) and the obstacles.forEach(addRepulsor), l.98-101:
\* forEach visits the elements present at its start, each pushes a copy
WithSources(st, goal) ==
    [st EXCEPT !.targets = Append(@, [position |-> goal, strength |-> 10 * Scale]),
               !.obstacles = @ \o [n \in 1..Len(@) |->
                                      [@[n] EXCEPT !.strength = 5 * Scale]]]

\* the diffusion loop on the state with its sources registered
Relaxed(st) ==
    [st EXCEPT !.potentialField =
                   Diffuse(@, [n \in 1..Len(@.data) |->
                                  IF Interior(@.dims, n)
                                  THEN computeLocalPotential(st, CellPos(@, n))
                                  ELSE 0],
                           DiffusionIterations),
               !.lastFieldUpdate = @ + 1]

\* updatePotentialField(start, goal, robotModel), l.93-133
updatePotentialField(st, goal) == Relaxed(WithSources(st, goal))

\* robotModel.isValidConfiguration(config)
isValidConfiguration(robotModel, cfg) ==
    \/ robotModel.valid = "any"
    \/ robotModel.valid = "aboveGround" /\ cfg[3] # NaN /\ cfg[3] >= 0

\* Math.sin
Sin(x) == Cos(x - HalfPi)

\* the offset of Fibonacci sample i at radius r, l.415-423
SampleOffset(i, r) ==
    << NMul(NMul(Sqrt(Scale - FMul(Scale - RDiv(2 * Scale * i, 19),
                                   Scale - RDiv(2 * Scale * i, 19))),
                 Cos(FMul(101664, i * Scale))), r),
       NMul(Scale - RDiv(2 * Scale * i, 19), r),
       NMul(NMul(Sqrt(Scale - FMul(Scale - RDiv(2 * Scale * i, 19),
                                   Scale - RDiv(2 * Scale * i, 19))),
                 Sin(FMul(101664, i * Scale))), r) >>

NoConfig == <<>>

SearchSamples == 20

\* the loops of findNearestValid from radius r and sample i on
RECURSIVE SearchFrom(_, _, _, _, _, _)
SearchFrom(cfg, robotModel, resolution, searchRadius, r, i) ==
    IF ~(r # NaN /\ searchRadius # NaN /\ r <= searchRadius) THEN NoConfig
    ELSE IF i >= SearchSamples
         THEN SearchFrom(cfg, robotModel, resolution, searchRadius,
                         NAdd(r, resolution), 0)
    ELSE IF isValidConfiguration(robotModel,
                [j \in 1..Len(cfg) |-> NAdd(cfg[j], SampleOffset(i, r)[j])])
         THEN [j \in 1..Len(cfg) |-> NAdd(cfg[j], SampleOffset(i, r)[j])]
    ELSE SearchFrom(cfg, robotModel, resolution, searchRadius, r, i + 1)

\* the number of candidates the loops of findNearestValid test from radius r
\* and sample i on
RECURSIVE TriedFrom(_, _, _, _, _, _)
TriedFrom(cfg, robotModel, resolution, searchRadius, r, i) ==
    IF ~(r # NaN /\ searchRadius # NaN /\ r <= searchRadius) THEN 0
    ELSE IF i >= SearchSamples
         THEN TriedFrom(cfg, robotModel, resolution, searchRadius,
                        NAdd(r, resolution), 0)
    ELSE IF isValidConfiguration(robotModel,
                [j \in 1..Len(cfg) |-> NAdd(cfg[j], SampleOffset(i, r)[j])])
         THEN 1
    ELSE 1 + TriedFrom(cfg, robotModel, resolution, searchRadius, r, i + 1)

\* config.resolution inside findNearestValid: its parameter config, the
\* configuration array, hides the planner's config, and an array has no
\* resolution (undefined; NaN in arithmetic)
ShadowedResolution == NaN

\* findNearestValid(config, robotModel), l.407-434
findNearestValid(cfg, robotModel) ==
    SearchFrom(cfg, robotModel, ShadowedResolution,
               NMul(ShadowedResolution, 5 * Scale), ShadowedResolution, 0)

\* the number of candidates one findNearestValid call tests
CandidatesTried(cfg, robotModel) ==
    TriedFrom(cfg, robotModel, ShadowedResolution,
              NMul(ShadowedResolution, 5 * Scale), ShadowedResolution, 0)

\* next, l.149-157: the gradient step and the momentum step from current
NextConfig(current, gradient, momentum) ==
    [i \in 1..Len(current) |->
        NAdd(NAdd(current[i], NMul(At(gradient, i), 2 * PlannerConfig.resolution)),
             NMul(momentum[i], PlannerConfig.smoothness))]

\* momentum, l.149-151
Momentum(path) ==
    IF Len(path) > 1
    THEN [i \in 1..Len(path[Len(path)]) |->
             NSub(path[Len(path)][i], path[Len(path) - 1][i])]
    ELSE <<0, 0, 0>>

\* dist < config.resolution * 3, l.165-168
GoalReached(goal, next) ==
    Less(Dist(SubSeq(goal, 1, 3), next), 3 * PlannerConfig.resolution)

RECURSIVE GradientLoop(_, _, _, _, _)

\* l.171-177: continue from the nearest valid configuration, or stop (stuck)
StepToNearest(field, path, goal, robotModel, step, valid) ==
    IF valid # NoConfig
    THEN GradientLoop(field, Append(path, valid), goal, robotModel, step + 1)
    ELSE [path |-> path, reached |-> FALSE]

\* l.160-178: the body of the loop on the candidate next
StepTo(field, path, goal, robotModel, step, next) ==
    IF isValidConfiguration(robotModel, next)
    THEN IF GoalReached(goal, next)
         THEN [path |-> Append(path, next), reached |-> TRUE]
         ELSE GradientLoop(field, Append(path, next), goal, robotModel, step + 1)
    ELSE StepToNearest(field, path, goal, robotModel, step,
                       findNearestValid(next, robotModel))

\* a loop that makes one step more than maxSteps
GradientLoopLate(field, path, goal, robotModel, step) ==
    IF step > PlannerConfig.horizonSteps
    THEN [path |-> path, reached |-> FALSE]
    ELSE StepTo(field, path, goal, robotModel, step,
                NextConfig(path[Len(path)],
                           computePotentialGradient(field, path[Len(path)]),
                           Momentum(path)))

\* for (let step = 0; step < maxSteps; step++), l.144-179
GradientLoop(field, path, goal, robotModel, step) ==
    IF step >= PlannerConfig.horizonSteps
    THEN [path |-> path, reached |-> FALSE]
    ELSE StepTo(field, path, goal, robotModel, step,
                NextConfig(path[Len(path)],
                           computePotentialGradient(field, path[Len(path)]),
                           Momentum(path)))

\* the weighted average of smoothPath, l.388-398
SmoothPoint(prev, curr, next, pPrev, pCurr, pNext) ==
    [j \in 1..Len(curr) |->
        FDiv(NAdd(NAdd(NMul(prev[j], pPrev), NMul(NMul(curr[j], pCurr), 2 * Scale)),
                  NMul(next[j], pNext)),
             NAdd(NAdd(NAdd(pPrev, pCurr), pNext), pCurr))]

\* smoothPath(path), l.377-405
smoothPath(field, path) ==
    IF Len(path) < 3 THEN path
    ELSE [i \in 1..Len(path) |->
             IF i = 1 \/ i = Len(path) THEN path[i]
             ELSE SmoothPoint(path[i - 1], path[i], path[i + 1],
                              interpolateFieldValue(field, path[i - 1]),
                              interpolateFieldValue(field, path[i]),
                              interpolateFieldValue(field, path[i + 1]))]

\* findGradientPath(start, goal, robotModel), l.138-183, before smoothPath
findGradientPath(field, start, goal, robotModel) ==
    GradientLoop(field, <<start>>, goal, robotModel, 0)

\* segmentTime of the segment ending at waypoint i, l.198-208
SegmentTime(field, path, robotModel, i) ==
    NMul(FDiv(Dist(path[i], path[i - 1]), robotModel.maxVelocity),
         NSub(2 * Scale, interpolateFieldValue(field, path[i])))

\* timestamps.push(timestamps[i - 1] + segmentTime), l.190-210
RECURSIVE Timestamps(_, _, _, _)
Timestamps(field, path, robotModel, ts) ==
    IF Len(ts) >= Len(path) THEN ts
    ELSE Timestamps(field, path, robotModel,
                    Append(ts, NAdd(ts[Len(ts)],
                                    SegmentTime(field, path, robotModel,
                                                Len(ts) + 1))))

\* acceleration, l.214-216
Acceleration(path, ts, i, velocity, segmentTime) ==
    IF i > 2
    THEN FDiv(NSub(velocity, FDiv(Dist(path[i - 1], path[i - 2]),
                                  NSub(ts[i - 1], ts[i - 2]))),
              segmentTime)
    ELSE 0

\* mass * (velocity^2 + energyWeight * acceleration^2) * segmentTime
SegmentEnergy(robotModel, velocity, acceleration, segmentTime) ==
    NMul(NMul(robotModel.mass,
              NAdd(NMul(velocity, velocity),
                   NMul(NMul(PlannerConfig.energyWeight, acceleration),
                        acceleration))),
         segmentTime)

\* the energy of the segment ending at waypoint i, l.213-219
EnergyAt(path, ts, robotModel, i, velocity, segmentTime) ==
    SegmentEnergy(robotModel, velocity,
                  Acceleration(path, ts, i, velocity, segmentTime), segmentTime)

\* the energy of the segment ending at waypoint i, from its duration
EnergyOver(path, ts, robotModel, i, segmentTime) ==
    EnergyAt(path, ts, robotModel, i,
             FDiv(Dist(path[i], path[i - 1]), segmentTime), segmentTime)

\* optimizeTiming(path, robotModel), l.188-228
optimizeTiming(field, path, robotModel, ts) ==
    [waypoints |-> path,
     timestamps |-> ts,
     totalEnergy |->
         SeqSum([k \in 1..(Len(path) - 1) |->
                    EnergyOver(path, ts, robotModel, k + 1,
                               SegmentTime(field, path, robotModel, k + 1))]),
     avgPotential |->
         FDiv(SeqSum([k \in 1..Len(path) |-> interpolateFieldValue(field, path[k])]),
              Len(path) * Scale)]

\* current plus the anticipatory adjustment, l.247-251
Adjusted(current, futureGradient, ahead) ==
    [j \in 1..Len(current) |->
        NAdd(current[j],
             FDiv(NMul(NMul(futureGradient[1 + ((j - 1) % 3)], 1000), ahead * Scale),
                  5 * Scale))]

\* if (isValidConfiguration(adjusted)) push(adjusted) else push(current)
ValidOr(robotModel, adjusted, current) ==
    IF isValidConfiguration(robotModel, adjusted) THEN adjusted ELSE current

\* the waypoint addAnticipation pushes for index i (from 1), l.242-261
Anticipated(field, waypoints, robotModel, i, lookahead) ==
    IF lookahead > i
    THEN ValidOr(robotModel,
                 Adjusted(waypoints[i],
                          computePotentialGradient(field, waypoints[lookahead]),
                          lookahead - i),
                 waypoints[i])
    ELSE waypoints[i]

\* addAnticipation(trajectory, robotModel), l.233-267
addAnticipation(field, trajectory, robotModel) ==
    [waypoints |-> [i \in 1..Len(trajectory.waypoints) |->
                       Anticipated(field, trajectory.waypoints, robotModel, i,
                                   Min(i + 5, Len(trajectory.waypoints)))],
     timestamps |-> trajectory.timestamps,
     totalEnergy |-> trajectory.totalEnergy,
     avgPotential |-> trajectory.avgPotential]

\* the value planPath returns, l.81-86
PlanOf(enhanced) ==
    [waypoints |-> enhanced.waypoints, timestamps |-> enhanced.timestamps,
     energy |-> enhanced.totalEnergy, avgPotential |-> enhanced.avgPotential]

\* l.76-86 on the smoothed path
PlanAlong(field, path, robotModel) ==
    PlanOf(addAnticipation(field,
               optimizeTiming(field, path, robotModel,
                              Timestamps(field, path, robotModel, <<0>>)),
               robotModel))

\* l.73-86 on the updated state
PlanIn(st, found, robotModel) ==
    [thrown |-> FALSE, state |-> st, reached |-> found.reached, path |-> found.path,
     plan |-> PlanAlong(st.potentialField,
                        smoothPath(st.potentialField, found.path), robotModel)]

\* l.70-86
PlanWith(st, start, goal, robotModel) ==
    PlanIn(st, findGradientPath(st.potentialField, start, goal, robotModel),
           robotModel)

NoPlan == [waypoints |-> <<>>, timestamps |-> <<>>, energy |-> 0, avgPotential |-> 0]

\* a planPath that registers the goal before looking for the field
PlanPathLateCheck(st, start, goal, robotModel) ==
    IF st.potentialField = NoField
    THEN [thrown |-> TRUE, state |-> WithSources(st, goal), reached |-> FALSE,
          path |-> <<>>, plan |-> NoPlan]
    ELSE PlanWith(updatePotentialField(st, goal), start, goal, robotModel)

\* planPath(start, goal, robotModel), l.64-87
PlanPathOf(st, start, goal, robotModel) ==
    IF st.potentialField = NoField
    THEN [thrown |-> TRUE, state |-> st, reached |-> FALSE, path |-> <<>>,
          plan |-> NoPlan]
    ELSE PlanWith(updatePotentialField(st, goal), start, goal, robotModel)

\* inputs of the planner
Workspaces == {[min |-> <<-15000, -15000, 0>>, max |-> <<15000, 15000, 20000>>]}

Starts == {<<10000, -10000, 3000>>, <<0, 0, 10000>>, <<10000, -10000, -3000>>}

Goals == {<<0, 0, 8000>>, <<-10000, 10000, 15000>>}

RobotModels ==
    {[mass |-> 150000, maxVelocity |-> 15000, valid |-> v] :
        v \in {"aboveGround", "any"}}

\* obstacle lists given to setObstacles (strength 0: the property is absent)
ObstacleLists ==
    { <<>>,
      <<[position |-> <<5000, -5000, 5000>>, radius |-> 3000, strength |-> 0]>> }

\* a call of the public interface, l.439-446
PlannerStep ==
    /\ pCalls < MaxPlannerCalls
    /\ pCalls' = pCalls + 1
    /\ UNCHANGED <<filterVars, syncVars, coordVars, orchVars, bufferVars,
                 lookupVars,
                   dynamicsVars>>

initializeField ==
    /\ PlannerStep
    /\ \E workspace \in Workspaces :
          pState' = [pState EXCEPT !.potentialField = NewField(workspace)]
    /\ pOutcome' = "none"
    /\ UNCHANGED <<pPlan, pReached, pPath, pModel>>

planPath ==
    /\ PlannerStep
    /\ \E start \in Starts, goal \in Goals, robotModel \in RobotModels :
          \E outcome \in {PlanPathOf(pState, start, goal, robotModel)} :
              /\ pState' = outcome.state
              /\ pPlan' = outcome.plan
              /\ pReached' = outcome.reached
              /\ pPath' = outcome.path
              /\ pOutcome' = IF outcome.thrown THEN "thrown" ELSE "returned"
              /\ pModel' = robotModel

setObstacles ==
    /\ PlannerStep
    /\ \E obstacles \in ObstacleLists :
          pState' = [pState EXCEPT !.obstacles = obstacles]
    /\ pOutcome' = "none"
    /\ UNCHANGED <<pPlan, pReached, pPath, pModel>>

clearField ==
    /\ PlannerStep
    /\ pState' = [pState EXCEPT !.targets = <<>>, !.obstacles = <<>>]
    /\ pOutcome' = "none"
    /\ UNCHANGED <<pPlan, pReached, pPath, pModel>>

InitPlanner ==
    /\ pState = [potentialField |-> NoField, flowLines |-> <<>>, obstacles |-> <<>>,
                 targets |-> <<>>, lastFieldUpdate |-> 0]
    /\ pPlan = NoPlan
    /\ pReached = FALSE
    /\ pPath = <<>>
    /\ pOutcome = "none"
    /\ pModel = [mass |-> 150000, maxVelocity |-> 15000, valid |-> "any"]
    /\ pCalls = 0

NextPlanner == initializeField \/ planPath \/ setObstacles \/ clearField

----------------------------------------------------------------------------
(* Orchestrator: RoboPianistDemo, part_003 l.563-1445.  The controls of a   *)
(* robot are the frame they were read from and the stages applied to it,   *)
(* in order; the stages' own state is the subject of the component         *)
(* specifications.  A stage call either returns or throws.                 *)

MaxOrchCalls == 3

\* robotNames, l.861
RobotNames == <<"leftHand", "rightHand", "go2Robot">>

\* actuators nothing has been written to
NoControls == [frame |-> 0, stages |-> <<>>]

\* no call throws
NoFault == [robot |-> "none", stage |-> "none"]

\* the call that throws during a tick, if it is made
Faults ==
    {NoFault, [robot |-> "all", stage |-> "coordinatorUpdate"]}
    \cup {[robot |-> RobotNames[i], stage |-> s] :
             i \in 1..3, s \in {"filter", "sync", "coordination", "expression"}}

\* the frame lists loaded as pianoControl: the time of each frame, in ticks
Songs == {<<0, 1>>, <<0, 1, 2, 3>>}

\* the waypoint counts of the plans planGo2Path stores
PathLengths == {1, 2}

\* getCurrentControlFrame(robotName, time), l.1198-1229, the loop from
\* (left, right): the index (from 1) of the frame returned, 0 for null
RECURSIVE getCurrentControlFrame(_, _, _, _)
getCurrentControlFrame(song, time, left, right) ==
    IF left <= right
    THEN IF song[(left + right) \div 2] = time THEN (left + right) \div 2
         ELSE IF song[(left + right) \div 2] < time
         THEN getCurrentControlFrame(song, time, (left + right) \div 2 + 1, right)
         ELSE getCurrentControlFrame(song, time, left, (left + right) \div 2 - 1)
    ELSE IF left <= Len(song) THEN left ELSE 0

\* the stages processRobotControls calls for a robot, in order, l.873-892
StagesOf(enh, robotName) ==
    (IF enh.filterEnabled THEN <<"filter">> ELSE <<>>)
    \o (IF enh.syncEnabled /\ robotName = "go2Robot" THEN <<"sync">> ELSE <<>>)
    \o (IF enh.coordinationEnabled THEN <<"coordination">> ELSE <<>>)
    \o (IF enh.dynamicsEnabled /\ robotName \in {"leftHand", "rightHand"}
        THEN <<"expression">> ELSE <<>>)

\* controls = stage(controls) for the stages from the n-th on, up to the
\* first that throws, l.871-892
RECURSIVE ApplyStages(_, _, _, _)
ApplyStages(stages, n, faulty, o) ==
    IF n > Len(stages) THEN o
    ELSE IF stages[n] = faulty THEN [o EXCEPT !.thrown = TRUE]
    ELSE ApplyStages(stages, n + 1, faulty,
             [o EXCEPT !.stages = Append(@, stages[n]),
                       !.filterActive = @ \/ stages[n] = "filter"])

\* this.setRobotControls(robotName, controls), l.895, unless a stage threw
SetUnlessThrown(o, idx, frame, staged) ==
    IF staged.thrown
    THEN [o EXCEPT !.thrown = TRUE, !.filterActive = staged.filterActive]
    ELSE [o EXCEPT !.filterActive = staged.filterActive,
                   !.ctrl[idx] = [frame |-> frame, stages |-> staged.stages],
                   !.written = @ \cup {RobotNames[idx]}]

\* processRobotControls(coordinatedStates, currentTime, dt), l.860-897, from
\* the idx-th robot on; an exception ends the forEach
RECURSIVE processRobotControls(_, _, _, _, _)
processRobotControls(o, enh, frame, fault, idx) ==
    IF idx > Len(RobotNames) \/ o.thrown \/ frame = 0 THEN o
    ELSE processRobotControls(
             SetUnlessThrown(o, idx, frame,
                 ApplyStages(StagesOf(enh, RobotNames[idx]), 1,
                             IF fault.robot = RobotNames[idx]
                             THEN fault.stage ELSE "none",
                             [stages |-> <<>>, filterActive |-> o.filterActive,
                              thrown |-> FALSE])),
             enh, frame, fault, idx + 1)

\* executeGo2PathPlanning(dt), l.953-972; go2NeedsNewPath() holds whenever
\* the clock is past 5 s, lastPathUpdate being 0 for ever (l.729, l.1013)
executeGo2PathPlanning(o, enh, near) ==
    IF \/ o.thrown \/ ~enh.pathPlanningEnabled \/ ~o.needsNewPath
       \/ o.path.index >= o.path.length
    THEN o
    ELSE [o EXCEPT !.path.index = IF near THEN @ + 1 ELSE @,
                   !.ctrl[3].stages = Append(@, "pathTarget")]

\* updateFullMetrics(dt), l.1022-1027
updateFullMetrics(o) ==
    IF o.thrown THEN o ELSE [o EXCEPT !.frameCount = @ + 1]

\* coordinator.update(robotStates, dt) when coordination is enabled, l.841-843
CoordinatorCall(o, enh, fault) ==
    IF enh.coordinationEnabled /\ fault.stage = "coordinatorUpdate"
    THEN [o EXCEPT !.thrown = TRUE]
    ELSE o

\* applyFullEnhancements(dt), l.833-855
applyFullEnhancements(o, enh, frame, fault, near) ==
    updateFullMetrics(
        executeGo2PathPlanning(
            processRobotControls(CoordinatorCall(o, enh, fault), enh, frame,
                                 fault, 1),
            enh, near))

\* Date.now() when the page is constructed, in seconds
PageLoaded == 1700000000

\* the time between two handlers of the page, in seconds
ClockAdvances == {1, 6}

\* the interval of go2NeedsNewPath, l.1015: 5000 ms
PlanInterval == 5

\* go2NeedsNewPath(), l.1013-1016
go2NeedsNewPath(now, lastPathUpdate) == now - lastPathUpdate > PlanInterval

\* a handler of the page runs
OrchStep ==
    /\ oCalls < MaxOrchCalls
    /\ oCalls' = oCalls + 1
    /\ \E advance \in ClockAdvances : oNow' = oNow + advance
    /\ UNCHANGED oLastPathUpdate
    /\ UNCHANGED <<filterVars, syncVars, coordVars, plannerVars, bufferVars,
                 lookupVars,
                   dynamicsVars>>

\* a checkbox of the enhancement folder, l.741-802
setEnhancement ==
    /\ OrchStep
    /\ \E flag \in DOMAIN oEnh : oEnh' = [oEnh EXCEPT ![flag] = ~@]
    /\ UNCHANGED <<oSong, oPath, oCtrl, oMetrics, oTime, oTick, oPlans>>

\* the npyjs load callback, l.1254-1257
loadSong ==
    /\ OrchStep
    /\ \E song \in Songs : oSong' = song
    /\ UNCHANGED <<oEnh, oPath, oCtrl, oMetrics, oTime, oTick, oPlans>>

\* planGo2Path(), l.934-948, the handler of the button "Plan New Path",
\* l.804-806: the only caller of pathPlanner.planPath
planGo2Path ==
    /\ OrchStep
    /\ \E n \in PathLengths : oPath' = [length |-> n, index |-> 0]
    /\ oPlans' = Append(oPlans, [at |-> oNow', handler |-> "planNewPath"])
    /\ UNCHANGED <<oEnh, oSong, oCtrl, oMetrics, oTime, oTick>>

\* one iteration of the simulation loop of render(timeMS), l.1345-1413:
\* applyFullEnhancements, simulation.step(), mujoco_time += timestep
render ==
    /\ OrchStep
    /\ \E fault \in Faults, near \in BOOLEAN :
          \E frame \in {getCurrentControlFrame(oSong, oTime, 1, Len(oSong))} :
              \E o \in {applyFullEnhancements(
                            [ctrl |-> oCtrl, path |-> oPath, written |-> {},
                             frameCount |-> oMetrics.frameCount,
                             filterActive |-> oMetrics.filterActive,
                             needsNewPath |->
                                 go2NeedsNewPath(oNow', oLastPathUpdate),
                             thrown |-> FALSE],
                            oEnh, frame, fault, near)} :
                  /\ oCtrl' = o.ctrl
                  /\ oPath' = o.path
                  /\ oMetrics' = [frameCount |-> o.frameCount,
                                  filterActive |-> o.filterActive]
                  /\ oTime' = IF o.thrown THEN oTime ELSE oTime + 1
                  /\ oTick' = [thrown |-> o.thrown,
                               fault |-> IF o.thrown THEN fault ELSE NoFault,
                               frame |-> frame, written |-> o.written,
                               stepped |-> ~o.thrown]
    /\ UNCHANGED <<oEnh, oSong, oPlans>>

\* the page as constructed, l.670-730: every enhancement enabled by default,
\* no song loaded, no path planned
InitOrch ==
    /\ oEnh = [filterEnabled |-> TRUE, syncEnabled |-> TRUE,
               dynamicsEnabled |-> TRUE, coordinationEnabled |-> TRUE,
               pathPlanningEnabled |-> TRUE]
    /\ oSong = <<>>
    /\ oPath = [length |-> 0, index |-> 0]
    /\ oCtrl = [i \in 1..3 |-> NoControls]
    /\ oMetrics = [frameCount |-> 0, filterActive |-> FALSE]
    /\ oTime = 0
    /\ oTick = [thrown |-> FALSE, fault |-> NoFault, frame |-> 0, written |-> {},
                stepped |-> FALSE]
    /\ oCalls = 0
    /\ oNow = PageLoaded
    /\ oLastPathUpdate = 0
    /\ oPlans = <<>>

NextOrch == setEnhancement \/ loadSong \/ planGo2Path \/ render

----------------------------------------------------------------------------
(* The control buffer: setRobotControls of part_000 l.278-293 and of        *)
(* part_003 l.1156-1178.  Indices are counted from 1 here: the buffer      *)
(* index k of the code is k + 1.                                           *)

MaxBufferCalls == 3

\* the length of the control buffer: 20 + 20 + 12 actuators
CtrlLength == 52

\* the lengths of the controls vectors handed in
ControlLengths == {0, 12, 20, 21, 52}

\* start index of a robot's actuators (from 0), in both variants
ActuatorStart(robotName) ==
    CASE robotName = "leftHand" -> 0
      [] robotName = "rightHand" -> 20
      [] robotName = "go2Robot" -> 40

\* actuatorMap[robotName].count, part_000 l.280-284
ActuatorCount(robotName) ==
    CASE robotName = "leftHand" -> 20
      [] robotName = "rightHand" -> 20
      [] robotName = "go2Robot" -> 12

\* part_000 l.289-291:
\* for (i = 0; i < mapping.count && i < controls.length; i++)
SetRobotControlsMapped(ctrl, robotName, controls) ==
    [k \in 1..Len(ctrl) |->
        IF /\ k - 1 - ActuatorStart(robotName) >= 0
           /\ k - 1 - ActuatorStart(robotName) < ActuatorCount(robotName)
           /\ k - 1 - ActuatorStart(robotName) < Len(controls)
        THEN controls[k - ActuatorStart(robotName)]
        ELSE ctrl[k]]

\* part_003 l.1175-1177:
\* for (i = 0; i < controls.length && startIdx + i < ctrl.length; i++)
SetRobotControlsFrom(ctrl, robotName, controls) ==
    [k \in 1..Len(ctrl) |->
        IF /\ k - 1 - ActuatorStart(robotName) >= 0
           /\ k - 1 - ActuatorStart(robotName) < Len(controls)
        THEN controls[k - ActuatorStart(robotName)]
        ELSE ctrl[k]]

\* setRobotControls(robotName, controls); every component of the controls of
\* a call holds the number of the call
setRobotControls ==
    /\ bCalls < MaxBufferCalls
    /\ bCalls' = bCalls + 1
    /\ \E i \in 1..3, n \in ControlLengths :
          /\ bLast' = [robot |-> RobotNames[i], length |-> n]
          /\ bCtrl' = IF bVariant = "part_000"
                      THEN SetRobotControlsMapped(bCtrl, RobotNames[i],
                                                  [j \in 1..n |-> bCalls + 1])
                      ELSE SetRobotControlsFrom(bCtrl, RobotNames[i],
                                                [j \in 1..n |-> bCalls + 1])
    /\ UNCHANGED bVariant
    /\ UNCHANGED <<filterVars, syncVars, coordVars, plannerVars, orchVars,
                 lookupVars,
                   dynamicsVars>>

\* a buffer nothing has been written to
IdleBuffer ==
    /\ bCtrl = [k \in 1..CtrlLength |-> 0]
    /\ bLast = [robot |-> "none", length |-> 0]
    /\ bCalls = 0

InitBuffer ==
    /\ bVariant \in {"part_000", "part_003"}
    /\ IdleBuffer

NextBuffer == setRobotControls

----------------------------------------------------------------------------
(* Trajectory lookup: getControlFrame of part_000 l.204-238 (the same code *)
(* in complete_main_integration.js l.374-403).  A sequence is given by the *)
(* times of its samples; indices are counted from 1 here.                  *)

MaxLookups == 2

\* 0.001, the width of the match window, l.213
FrameTolerance == 10

\* sample times and query times, in steps of 0.0005
FrameTimes == {0, 5, 10, 20, 30}

QueryTimes == {0, 5, 10, 15, 20, 30, 40}

MaxSamples == 3

\* the time-ascending sequences of at most MaxSamples samples
AscendingSequences ==
    {s \in UNION {[1..n -> FrameTimes] : n \in 0..MaxSamples} :
        \A i \in 1..(Len(s) - 1) : s[i] <= s[i + 1]}

\* return null
NoFrame == [index |-> 0, time |-> 0]

\* a lookup whose final test is one short: if (left < sequence.length - 1)
RECURSIVE GetControlFrameShort(_, _, _, _)
GetControlFrameShort(sequence, time, left, right) ==
    IF left <= right
    THEN IF Abs(sequence[(left + right) \div 2] - time) < FrameTolerance
         THEN [index |-> (left + right) \div 2,
               time |-> sequence[(left + right) \div 2]]
         ELSE IF sequence[(left + right) \div 2] < time
         THEN GetControlFrameShort(sequence, time, (left + right) \div 2 + 1, right)
         ELSE GetControlFrameShort(sequence, time, left, (left + right) \div 2 - 1)
    ELSE IF left < Len(sequence)
         THEN [index |-> left, time |-> sequence[left]]
         ELSE NoFrame

\* getControlFrame(sequence, time), l.204-238, the loop from (left, right)
RECURSIVE GetControlFrame(_, _, _, _)
GetControlFrame(sequence, time, left, right) ==
    IF left <= right
    THEN IF Abs(sequence[(left + right) \div 2] - time) < FrameTolerance
         THEN [index |-> (left + right) \div 2,
               time |-> sequence[(left + right) \div 2]]
         ELSE IF sequence[(left + right) \div 2] < time
         THEN GetControlFrame(sequence, time, (left + right) \div 2 + 1, right)
         ELSE GetControlFrame(sequence, time, left, (left + right) \div 2 - 1)
    ELSE IF left <= Len(sequence)
         THEN [index |-> left, time |-> sequence[left]]
         ELSE NoFrame

\* a call getControlFrame(sequence, time) on the sequence in use
getControlFrame ==
    /\ lCalls < MaxLookups
    /\ lCalls' = lCalls + 1
    /\ \E time \in QueryTimes :
          /\ lTime' = time
          /\ lRet' = GetControlFrame(lSeq, time, 1, Len(lSeq))
    /\ UNCHANGED lSeq
    /\ UNCHANGED <<filterVars, syncVars, coordVars, plannerVars, orchVars,
                   bufferVars,
                   dynamicsVars>>

\* no lookup made yet
IdleLookup ==
    /\ lTime = 0
    /\ lRet = NoFrame
    /\ lCalls = 0

InitLookup ==
    /\ lSeq \in AscendingSequences
    /\ IdleLookup

NextLookup == getControlFrame

----------------------------------------------------------------------------
(* Expressive dynamics: enhancePerformance of part_005, first variant      *)
(* l.14-137, second variant l.169-301.  A sample is [t, qpos]; indices of  *)
(* samples and phrases are counted from 0 as in the code, sequences from 1. *)

MaxEnhanceCalls == 3

\* getRuntimeParam("rubato", 0.06), ("velscale", 1.0), ("phrase", 16): the
\* defaults and values given in the page's query string
DynamicsConfigs ==
    { [rubato |-> 600, velscale |-> Scale, phrase |-> p] : p \in {2, 5, 16} }

Seeds == {42, 7}

Limb == 4096

\* a Number below 2^31 as three digits of base 4096, least significant first
Limbs(n) == <<n % Limb, (n \div Limb) % Limb, n \div (Limb * Limb)>>

\* the digits of the columns s with the carries propagated
RECURSIVE Carry(_, _)
Carry(s, c) ==
    IF s = <<>> THEN (IF c = 0 THEN <<>> ELSE <<c>>)
    ELSE <<(Head(s) + c) % Limb>> \o Carry(Tail(s), (Head(s) + c) \div Limb)

RECURSIVE Bits(_)
Bits(n) == IF n = 0 THEN 0 ELSE 1 + Bits(n \div 2)

RECURSIVE Pow2(_)
Pow2(k) == IF k <= 0 THEN 1 ELSE 2 * Pow2(k - 1)

\* the number of significant bits of the digits s
RECURSIVE BitLen(_)
BitLen(s) ==
    IF s = <<>> THEN 0
    ELSE LET high == BitLen(Tail(s))
         IN  IF high > 0 THEN 12 + high ELSE Bits(Head(s))

\* the double nearest to the integer s: 53 significant bits, ties to even
ToDouble(s) ==
    LET k    == BitLen(s) - 53
        u    == Pow2(k)
        low  == s[1] % u
        odd  == (s[1] \div u) % 2 = 1
        up   == 2 * low > u \/ (2 * low = u /\ odd)
    IN  IF k <= 0 THEN s
        ELSE Carry(<<s[1] - low + (IF up THEN u ELSE 0)>> \o Tail(s), 0)

\* rng * 1103515245, l.23
LcgProduct(rng) ==
    LET x == Limbs(rng)
        a == Limbs(1103515245)
    IN  ToDouble(Carry(<<x[1] * a[1],
                         x[1] * a[2] + x[2] * a[1],
                         x[1] * a[3] + x[2] * a[2] + x[3] * a[1],
                         x[2] * a[3] + x[3] * a[2],
                         x[3] * a[3],
                         0>>, 0))

\* the integer below 2^31 that & 0x7fffffff leaves of the double q
LowBits(q) == q[1] + q[2] * Limb + (q[3] % 128) * Limb * Limb

\* p + 12345, l.23
LcgSum(p) ==
    ToDouble(Carry(<<p[1] + (12345 % Limb), p[2] + (12345 \div Limb)>>
                   \o SubSeq(p, 3, Len(p)), 0))

\* (rng * 1103515245 + 12345) & 0x7fffffff, l.23
Lcg(rng) ==
    CHOOSE next \in {LowBits(LcgSum(p)) : p \in {LcgProduct(rng)}} : TRUE

\* two calls of random(), l.22-25: the states of the generator after each
TwoDraws(rng) == CHOOSE d \in {<<r1, Lcg(r1)>> : r1 \in {Lcg(rng)}} : TRUE

\* rng / 0x7fffffff, l.24
Unit(rng) == rng \div 214748

\* let rng = seed, l.21: every call starts its generator from its own seed;
\* retained is where the generator of the call before stopped
SeedRetained(seed, retained) == retained

SeedOf(seed, retained) == seed

Sign(x) == IF x > 0 THEN 1 ELSE IF x < 0 THEN -1 ELSE 0

\* Math.sign(a) !== Math.sign(b)
SignDiffers(a, b) == a = NaN \/ b = NaN \/ Sign(a) # Sign(b)

RECURSIVE SumSq(_, _, _)
\* the sum over i of ((a[i] - b[i]) / d)^2
SumSq(a, b, d) ==
    IF a = <<>> THEN 0
    ELSE NAdd(NMul((Head(a) - Head(b)) \div d, (Head(a) - Head(b)) \div d),
              SumSq(Tail(a), Tail(b), d))

\* calculateVelocity, l.101-108
calculateVelocity1(sequence, idx) ==
    IF idx = 0 \/ idx >= Len(sequence) - 1 THEN 0
    ELSE FDiv(Sqrt(SumSq(sequence[idx + 2].qpos, sequence[idx + 1].qpos, 1)),
              sequence[idx + 2].t - sequence[idx + 1].t)

\* the loop of detectPhrases, l.72-85, from index i
RECURSIVE PhraseLoop1(_, _, _, _, _)
PhraseLoop1(sequence, minLength, i, phraseStart, phrases) ==
    IF i >= Len(sequence) - 1
    THEN [phraseStart |-> phraseStart, phrases |-> phrases]
    ELSE IF /\ i - phraseStart >= minLength
            /\ \/ SignDiffers(calculateVelocity1(sequence, i - 1),
                              calculateVelocity1(sequence, i))
               \/ Less(Abs(calculateVelocity1(sequence, i)), 1000)
    THEN PhraseLoop1(sequence, minLength, i + 1, i,
                     Append(phrases, [start |-> phraseStart, end |-> i]))
    ELSE PhraseLoop1(sequence, minLength, i + 1, phraseStart, phrases)

\* detectPhrases, l.68-93
detectPhrases1(sequence, minLength) ==
    LET loop == PhraseLoop1(sequence, minLength, 1, 0, <<>>)
    IN  IF 2 * (Len(sequence) - loop.phraseStart) >= minLength
        THEN Append(loop.phrases,
                    [start |-> loop.phraseStart, end |-> Len(sequence)])
        ELSE loop.phrases

\* calculateVelocity, l.258-270
calculateVelocity2(sequence, idx) ==
    Sqrt(SumSq(sequence[idx + 2].qpos, sequence[idx].qpos, 2))

\* the velocity profile, l.228-230: velocities[k] for k = 0 .. length - 3
Velocities(sequence) ==
    [k \in 1..(Len(sequence) - 2) |-> calculateVelocity2(sequence, k)]

\* the loop of detectPhrases, l.234-242, from index i
RECURSIVE PhraseLoop2(_, _, _, _, _)
PhraseLoop2(velocities, minLength, i, phraseStart, phrases) ==
    IF i >= Len(velocities) - minLength
    THEN [phraseStart |-> phraseStart, phrases |-> phrases]
    ELSE IF /\ Less(velocities[i + 1], velocities[i])
            /\ Less(velocities[i + 1], velocities[i + 2])
            /\ i - phraseStart >= minLength
    THEN PhraseLoop2(velocities, minLength, i + 1, i,
                     Append(phrases, [start |-> phraseStart, end |-> i]))
    ELSE PhraseLoop2(velocities, minLength, i + 1, phraseStart, phrases)

\* detectPhrases, l.223-250
detectPhrases2(sequence, minLength) ==
    LET loop == PhraseLoop2(Velocities(sequence), minLength, minLength, 0, <<>>)
    IN  IF Len(sequence) - loop.phraseStart >= minLength
        THEN Append(loop.phrases,
                    [start |-> loop.phraseStart, end |-> Len(sequence)])
        ELSE loop.phrases

detectPhrases(variant, sequence, minLength) ==
    IF variant = "first" THEN detectPhrases1(sequence, minLength)
    ELSE detectPhrases2(sequence, minLength)

\* phrases.findIndex(p => i >= p.start && i < p.end), counted from 1; 0: -1
RECURSIVE FindPhrase(_, _, _)
FindPhrase(phrases, i, k) ==
    IF k > Len(phrases) THEN 0
    ELSE IF i >= phrases[k].start /\ i < phrases[k].end THEN k
    ELSE FindPhrase(phrases, i, k + 1)

\* smoothNoise, l.128-137: two draws, the left operand's first
smoothNoise1(rng, x) ==
    LET x0 == ((x * 8) \div Scale) * (Scale \div 8)
        fx == (x - x0) * 8
        sx == FMul(FMul(fx, fx), 3 * Scale - 2 * fx)
    IN  CHOOSE drawn \in
            { [rng |-> d[2],
               noise |-> FMul(Scale - sx, 2 * Unit(d[1]) - Scale)
                         + FMul(sx, 2 * Unit(d[2]) - Scale)] :
                d \in {TwoDraws(rng)} } : TRUE

\* smoothNoise, l.292-301
smoothNoise2(rng, x) ==
    LET f == x - (x \div Scale) * Scale
    IN  CHOOSE drawn \in
            { [rng |-> d[2],
               noise |-> FMul(Unit(d[1]), Scale - f) + FMul(Unit(d[2]), f)] :
                d \in {TwoDraws(rng)} } : TRUE

\* Math.exp on [-2, 0], by its Taylor polynomial up to x^12
RECURSIVE ExpFrom(_, _, _)
ExpFrom(x, k, term) ==
    IF k > 12 THEN 0 ELSE term + ExpFrom(x, k + 1, RDiv(FMul(term, x), k))

Exp(x) == ExpFrom(x, 1, Scale)

\* applyVelocityEnvelope, l.117-120
applyVelocityEnvelope1(qpos, progress, scale) ==
    LET envelope == 8000 + FMul(2000, Cos(FMul(progress, TwoPi)))
    IN  [i \in 1..Len(qpos) |-> FMul(FMul(qpos[i], envelope), scale)]

\* applyVelocityEnvelope, l.279-284
applyVelocityEnvelope2(qpos, progress, scale) ==
    LET envelope ==
            FMul(Exp(-FDiv(FMul(progress - 5000, progress - 5000), 2000)), scale)
    IN  [i \in 1..Len(qpos) |-> FMul(qpos[i], envelope)]

\* the body of the loop for a sample inside phrase p, l.38-52 and l.193-207;
\* acc is [rng, timeOffset, enhanced]
InPhrase(variant, cfg, sample, i, p, acc) ==
    LET phraseProgress == FDiv(i - p.start, p.end - p.start)
        timingVar == FMul(Sin(FMul(phraseProgress, Pi)), cfg.rubato)
        drawn == IF variant = "first" THEN smoothNoise1(acc.rng, phraseProgress)
                 ELSE smoothNoise2(acc.rng, phraseProgress)
        shift == FMul(timingVar, drawn.noise)
    IN  [rng |-> drawn.rng,
         enhanced |->
             Append(acc.enhanced,
                    [t |-> sample.t + acc.timeOffset + shift,
                     qpos |-> IF variant = "first"
                              THEN applyVelocityEnvelope1(sample.qpos,
                                       phraseProgress, cfg.velscale)
                              ELSE applyVelocityEnvelope2(sample.qpos,
                                       phraseProgress, cfg.velscale)]),
         timeOffset |-> IF variant = "first"
                        THEN acc.timeOffset + FMul(shift, 1000)
                        ELSE acc.timeOffset + FMul(timingVar, 1000)]

\* the else branch of the loop, l.53-56 and l.208-211
OutOfPhrase(variant, sample, acc) ==
    [acc EXCEPT !.enhanced =
        Append(@, IF variant = "first"
                  THEN [t |-> sample.t + acc.timeOffset, qpos |-> sample.qpos]
                  ELSE sample)]

\* one iteration of the loop of enhancePerformance
EnhanceStep(variant, cfg, sequence, phrases, i, acc) ==
    IF FindPhrase(phrases, i, 1) > 0
    THEN InPhrase(variant, cfg, sequence[i + 1], i,
                  phrases[FindPhrase(phrases, i, 1)], acc)
    ELSE OutOfPhrase(variant, sequence[i + 1], acc)

\* the loop of enhancePerformance, l.34-57 and l.189-212, from index i: each
\* iteration is computed before the next one starts
RECURSIVE EnhanceLoop(_, _, _, _, _, _)
EnhanceLoop(variant, cfg, sequence, phrases, i, acc) ==
    IF i >= Len(sequence) THEN acc
    ELSE CHOOSE result \in
             { EnhanceLoop(variant, cfg, sequence, phrases, i + 1, next) :
                 next \in {EnhanceStep(variant, cfg, sequence, phrases, i, acc)} } :
             TRUE

\* enhancePerformance(ctrlSequence, seed), l.14-60 and l.169-215
EnhancePerformance(variant, cfg, ctrlSequence, seed, retained) ==
    LET phrases == detectPhrases(variant, ctrlSequence, cfg.phrase)
        loop == EnhanceLoop(variant, cfg, ctrlSequence, phrases, 0,
                            [rng |-> SeedOf(seed, retained), timeOffset |-> 0,
                             enhanced |-> <<>>])
    IN  [phrases |-> phrases, enhanced |-> loop.enhanced, rng |-> loop.rng]

\* joint targets of the input sequences: held still, and moving with a pause
\* between samples 3 and 4
Held(i) == <<5000, 5000>>

Pausing(i) == <<At(<<0, 2000, 4000, 5000, 5000, 7000, 9000>>, i + 1), 1000>>

SequenceLengths == {1, 3, 7}

\* control sequences sampled every 0.1 s, and one sampled every 0.01 s
ControlSequences ==
    UNION { { [i \in 1..n |-> [t |-> 1000 * (i - 1), qpos |-> Held(i - 1)]],
              [i \in 1..n |-> [t |-> 1000 * (i - 1), qpos |-> Pausing(i - 1)]] }
            : n \in SequenceLengths }
    \cup { [i \in 1..7 |-> [t |-> 100 * (i - 1), qpos |-> Held(i - 1)]] }

\* a call enhancePerformance(ctrlSequence, seed)
enhancePerformance ==
    /\ Len(eLog) < MaxEnhanceCalls
    /\ \E ctrlSequence \in ControlSequences, seed \in Seeds :
         \E r \in {EnhancePerformance(eVariant, eConfig, ctrlSequence, seed, eRng)} :
            /\ eLog' = Append(eLog, [sequence |-> ctrlSequence, seed |-> seed,
                                     phrases |-> r.phrases,
                                     enhanced |-> r.enhanced])
            /\ eRng' = r.rng
    /\ UNCHANGED <<eVariant, eConfig>>
    /\ UNCHANGED <<filterVars, syncVars, coordVars, plannerVars, orchVars,
                   bufferVars, lookupVars>>

\* no call made yet
IdleDynamics ==
    /\ eRng = 0
    /\ eLog = <<>>

InitDynamics ==
    /\ eVariant \in {"first", "second"}
    /\ eConfig \in DynamicsConfigs
    /\ IdleDynamics

NextDynamics == enhancePerformance

----------------------------------------------------------------------------
(* Specifications: one per component, the other components idle *)

\* the filter as constructed and not yet called
IdleFilter ==
    /\ fVariant = "ema"
    /\ fOpts = [windowSize |-> 5, gain |-> 90, noiseSigma |-> 0]
    /\ hist = <<>>
    /\ fRaw = <<>>
    /\ fOut = <<>>
    /\ fPrevLen = -1
    /\ fCalls = 0
    /\ fRun = 0

\* the synchronizer as constructed and not yet called
IdleSync ==
    /\ sKind = "tempo1"
    /\ sConfig = [Kp |-> 5000, Ki |-> 1000, maxAdjust |-> 300]
    /\ syncState = [errorIntegral |-> 0, lastBeatTime |-> 0, robotPhase |-> 0,
                    robotFreq |-> 20000, enabled |-> TRUE]
    /\ sLast = "create"
    /\ sErr = 0
    /\ sRet = 0
    /\ sFreqBefore = 20000
    /\ sCalls = 0

\* the expressive dynamics with its defaults and not yet called
StillDynamics ==
    /\ eVariant = "second"
    /\ eConfig = [rubato |-> 600, velscale |-> Scale, phrase |-> 16]
    /\ IdleDynamics

FilterInit == InitFilter /\ IdleSync /\ InitCoord /\ InitPlanner /\ InitOrch
    /\ bVariant = "part_003" /\ IdleBuffer /\ lSeq = <<>> /\ IdleLookup
    /\ StillDynamics

SpecFilter == FilterInit /\ [][NextFilter]_vars

SyncInit == InitSync /\ IdleFilter /\ InitCoord /\ InitPlanner /\ InitOrch
    /\ bVariant = "part_003" /\ IdleBuffer /\ lSeq = <<>> /\ IdleLookup
    /\ StillDynamics

SpecSync == SyncInit /\ [][NextSync]_vars

SyncRunInit == InitSyncRun /\ IdleFilter /\ InitCoord /\ InitPlanner /\ InitOrch
    /\ bVariant = "part_003" /\ IdleBuffer /\ lSeq = <<>> /\ IdleLookup
    /\ StillDynamics

SpecSyncRun == SyncRunInit /\ [][NextSyncRun]_vars

CoordInit == InitCoord /\ IdleFilter /\ IdleSync /\ InitPlanner /\ InitOrch
    /\ bVariant = "part_003" /\ IdleBuffer /\ lSeq = <<>> /\ IdleLookup
    /\ StillDynamics

SpecCoord == CoordInit /\ [][NextCoord]_vars

CoordRunInit == CoordInit

SpecCoordRun == CoordRunInit /\ [][NextCoordRun]_vars

PlannerInit == InitPlanner /\ IdleFilter /\ IdleSync /\ InitCoord /\ InitOrch
    /\ bVariant = "part_003" /\ IdleBuffer /\ lSeq = <<>> /\ IdleLookup
    /\ StillDynamics

SpecPlanner == PlannerInit /\ [][NextPlanner]_vars

OrchInit == InitOrch /\ IdleFilter /\ IdleSync /\ InitCoord /\ InitPlanner
    /\ bVariant = "part_003" /\ IdleBuffer /\ lSeq = <<>> /\ IdleLookup
    /\ StillDynamics

SpecOrch == OrchInit /\ [][NextOrch]_vars

BufferInit ==
    InitBuffer /\ InitOrch /\ IdleFilter /\ IdleSync /\ InitCoord /\ InitPlanner
    /\ lSeq = <<>> /\ IdleLookup /\ StillDynamics

SpecBuffer == BufferInit /\ [][NextBuffer]_vars

LookupInit ==
    InitLookup /\ InitOrch /\ IdleFilter /\ IdleSync /\ InitCoord /\ InitPlanner
    /\ bVariant = "part_003" /\ IdleBuffer /\ StillDynamics

SpecLookup == LookupInit /\ [][NextLookup]_vars

DynamicsInit ==
    InitDynamics /\ InitOrch /\ IdleFilter /\ IdleSync /\ InitCoord /\ InitPlanner
    /\ bVariant = "part_003" /\ IdleBuffer /\ lSeq = <<>> /\ IdleLookup

SpecDynamics == DynamicsInit /\ [][NextDynamics]_vars

----------------------------------------------------------------------------
(* Filter claims *)

\* C4: with raw values in [-1,1], sigma <= 0.05, W in [5,32] and gain in
\* [0.1,0.99], every (numeric) component of every filtered output lies in
\* [-1-sigma, 1+sigma].
C4_FilterOutputBounded ==
    (/\ fOpts.noiseSigma <= 500
     /\ fOpts.windowSize \in 5..32
     /\ fOpts.gain \in 10..99)
    => \A i \in 1..Len(fOut) :
          IsNum(fOut[i]) => Abs(fOut[i]) <= Scale + fOpts.noiseSigma

\* C5: at the return of every call the history buffer holds at most W
\* entries, W being the instance's window size.
C5_HistoryWithinWindow == Len(hist) <= fOpts.windowSize

\* C5 witness: more calls than W were made and the buffer is full, so a
\* sample has been evicted.
C5_Witness == fCalls > fOpts.windowSize /\ Len(hist) = fOpts.windowSize

\* C6: a call whose vector length differs from the previous call's
\* reinitializes the history and returns a vector of the new length with no
\* component computed from a missing history element.
C6_LengthChangeReinitializes ==
    (fPrevLen >= 0 /\ Len(fRaw) > 0 /\ Len(fRaw) # fPrevLen)
    => /\ Len(hist) <= 1
       /\ Len(fOut) = Len(fRaw)
       /\ \A i \in 1..Len(fOut) : IsNum(fOut[i])

----------------------------------------------------------------------------
(* Synchronizer claims *)

\* C7: for every phase error in [-pi,pi], the magnitude of the value
\* computeAdjustment returns is at most maxAdjust times the current frequency
\* (the larger of the frequency before and after the call).
C7_AdjustmentBounded ==
    (sKind = "tempo1" /\ sLast = "computeAdjustment" /\ Abs(sErr) <= Pi)
    => Abs(sRet) <= FMul(sConfig.maxAdjust, Max(sFreqBefore, syncState.robotFreq))

\* C8: the tracked frequency lies in [0.5, 4.0] Hz in every reachable state.
C8_FrequencyBounded ==
    sKind \in {"tempo1", "tempo2"}
    => (MinFreq <= syncState.robotFreq /\ syncState.robotFreq <= MaxFreq)

\* the synchronizer's stored robot phase is in [0, 2 pi)
SyncPhaseWrapped == 0 <= syncState.robotPhase /\ syncState.robotPhase < TwoPi

----------------------------------------------------------------------------
(* Coordinator claims *)

\* x is a number in [0, 2 pi)
Wrapped(x) == x # NaN /\ 0 <= x /\ x < TwoPi

\* C9: every phase held or produced is in [0, 2 pi): the synchronizer's stored
\* robot phase, the phase the coordinator extracts for each agent and the
\* target phase the coordinator computes for each agent.
C9_PhasesWrapped ==
    /\ SyncPhaseWrapped
    /\ \A i \in 1..Len(cPhases) : Wrapped(cPhases[i])
    /\ \A i \in 1..Len(cTargets) : Wrapped(cTargets[i])

(***************************************************************************)
(* Planner claims                                                          *)
(***************************************************************************)

\* C1: every waypoint of a plan returned by planPath satisfies
\* robotModel.isValidConfiguration, the first waypoint and the smoothed and
\* anticipated waypoints included.
C1_WaypointsValid ==
    pOutcome = "returned" =>
        \A i \in 1..Len(pPlan.waypoints) :
            isValidConfiguration(pModel, pPlan.waypoints[i])

\* C2: a planPath call on a planner whose field was never initialized throws,
\* and the call leaves the planner state as it was (no target, no obstacle,
\* no field).
C2_PlanBeforeInitFails ==
    [][(pState.potentialField = NoField /\ pOutcome' # "none")
          => (pOutcome' = "thrown" /\ pState' = pState)]_vars

\* a planPath call has thrown on a planner without a field that holds obstacles
C2_Witness ==
    /\ pOutcome = "thrown"
    /\ pState.potentialField = NoField
    /\ pState.obstacles # <<>>
    /\ pState.targets = <<>>

\* C3: a plan whose gradient search stopped short of the goal tolerance is
\* returned in a form that tells it apart from a plan whose search reached
\* the goal.
C3_TruncatedPlanMarked ==
    (pOutcome = "returned" /\ ~pReached) =>
        \E f \in DOMAIN pPlan :
            f \notin {"waypoints", "timestamps", "energy", "avgPotential"}

(***************************************************************************)
(* Orchestrator claims                                                     *)
(***************************************************************************)

\* C10: when a stage call fails during a loop iteration, the iteration still
\* completes (the simulation is stepped), and if there is a control frame every
\* robot's controls are written in that iteration, those of the robot whose
\* stage failed being the raw frame with no enhancement stage applied.
C10_StageFailureContained ==
    oTick.thrown =>
        /\ oTick.stepped
        /\ oTick.frame # 0 =>
              /\ oTick.written = {RobotNames[i] : i \in 1..3}
              /\ \A i \in 1..3 :
                    RobotNames[i] = oTick.fault.robot =>
                        /\ oCtrl[i].frame = oTick.frame
                        /\ SelectSeq(oCtrl[i].stages,
                                     LAMBDA s : s # "pathTarget") = <<>>

(***************************************************************************)
(* Stage state, ordering and buffer claims                                 *)
(***************************************************************************)

\* C11: disabling a stage leaves its retained state as it was: no
\* setEnabled call changes the synchronizer's integral, frequency, phase or
\* last beat time, so a disable followed by a re-enable resumes from the state
\* at the moment of disabling.
C11_DisableKeepsState ==
    [][sLast' = "setEnabled" =>
          /\ syncState'.errorIntegral = syncState.errorIntegral
          /\ syncState'.robotFreq = syncState.robotFreq
          /\ syncState'.robotPhase = syncState.robotPhase
          /\ syncState'.lastBeatTime = syncState.lastBeatTime]_vars

\* the position of a stage in the order filter, coordination,
\* synchronization, expression
PrescribedRank(stage) ==
    CASE stage = "filter" -> 1
      [] stage = "coordination" -> 2
      [] stage = "sync" -> 3
      [] stage = "expression" -> 4
      [] OTHER -> 5   \* not an enhancement stage

\* C12: the stages applied to the controls written for a robot were applied
\* in the order filter, coordination, synchronization, expression.
C12_StagesInPrescribedOrder ==
    \A i \in 1..3 :
        \A a, b \in 1..Len(oCtrl[i].stages) :
            (a < b /\ PrescribedRank(oCtrl[i].stages[b]) <= 4) =>
                PrescribedRank(oCtrl[i].stages[a])
                    < PrescribedRank(oCtrl[i].stages[b])

\* C13: a setRobotControls call changes no buffer index outside the range of
\* the robot it is called for (leftHand 0-19, rightHand 20-39, go2Robot
\* 40-51), whatever the length of the controls.
C13_WritesStayInRange ==
    [][\A k \in 1..CtrlLength :
          (bCalls' = bCalls + 1 /\ bCtrl'[k] # bCtrl[k]) =>
              /\ k - 1 >= ActuatorStart(bLast'.robot)
              /\ k - 1 < ActuatorStart(bLast'.robot)
                            + ActuatorCount(bLast'.robot)]_vars

C15_CouplingMatrixWellFormed ==
    \A i, j \in 1..Len(cState.couplingMatrix) :
        /\ cState.couplingMatrix[i][j] # NaN
        /\ cState.couplingMatrix[i][j] = cState.couplingMatrix[j][i]
        /\ i = j => cState.couplingMatrix[i][j] = Scale
        /\ i # j => /\ cState.couplingMatrix[i][j] >= 0
                    /\ cState.couplingMatrix[i][j] <= Scale

\* C16: the coordinator's retained state is capped: each agent's phase
\* history holds at most 100 samples, and the energy landscape never holds
\* more entries than the cap detectStablePoints applies (the 5 of slice(0, 5)).
C16_StateSizeCapped ==
    /\ \A i \in 1..Len(cState.phaseMemory) :
          Len(cState.phaseMemory[i]) <= MemoryCap
    /\ Len(cState.energyLandscape) <= StableCap

(***************************************************************************)
(* Synchronizer reset claim                                                *)
(***************************************************************************)

\* C17: right after reset() the synchronizer's whole retained state is that
\* of a freshly constructed instance.
C17_ResetGivesFreshState == sLast = "reset" => syncState = FreshSyncState

(***************************************************************************)
(* Expressive dynamics claims                                              *)
(***************************************************************************)

\* C18: two calls of enhancePerformance with the same sequence and the same
\* seed return the same output at every index, whatever calls were made in
\* between.
C18_SameArgumentsSameOutput ==
    \A i, j \in 1..Len(eLog) :
        (eLog[i].sequence = eLog[j].sequence /\ eLog[i].seed = eLog[j].seed)
            => eLog[i].enhanced = eLog[j].enhanced

\* C18 witness: the first and the third call have the same arguments, the
\* call between them has another sequence and another seed, and the repeated
\* output has drawn from the generator (a sample moved in time).
C18_Witness ==
    /\ Len(eLog) = 3
    /\ eLog[1].sequence = eLog[3].sequence
    /\ eLog[1].seed = eLog[3].seed
    /\ eLog[2].sequence # eLog[1].sequence
    /\ eLog[2].seed # eLog[1].seed
    /\ eLog[2].phrases # <<>>
    /\ \E k \in 1..Len(eLog[3].sequence) :
          eLog[3].enhanced[k].t # eLog[3].sequence[k].t
    /\ eLog[1].enhanced = eLog[3].enhanced

\* C19: a sequence of length n with 1 <= n < 2 L, L the minimum phrase
\* length, is detected as exactly one phrase, which covers indices 0 .. n-1.
C19_ShortSequenceOnePhrase ==
    \A k \in 1..Len(eLog) :
        (Len(eLog[k].sequence) >= 1 /\ Len(eLog[k].sequence) < 2 * eConfig.phrase)
            => eLog[k].phrases = <<[start |-> 0, end |-> Len(eLog[k].sequence)]>>

\* C20: in the output of enhancePerformance every sample whose index lies in
\* no detected phrase has the timestamp and the targets of the input sample
\* at that index.
C20_OutsidePhrasesUnchanged ==
    \A k \in 1..Len(eLog) :
        \A i \in 0..(Len(eLog[k].sequence) - 1) :
            FindPhrase(eLog[k].phrases, i, 1) = 0
                => eLog[k].enhanced[i + 1] = eLog[k].sequence[i + 1]

\* the timestamps of s never go back from one sample to the next
TimeAscending(s) == \A i \in 1..(Len(s) - 1) : s[i].t <= s[i + 1].t

\* C30: a time-ascending input sequence of enhancePerformance gives a
\* time-ascending output sequence.
C30_OutputTimeAscending ==
    \A k \in 1..Len(eLog) :
        TimeAscending(eLog[k].sequence) => TimeAscending(eLog[k].enhanced)

(***************************************************************************)
(* Path planning trigger claim                                             *)
(***************************************************************************)

\* C21: planPath never runs inside the per-tick control step, and two runs
\* of it are at least one planning interval apart.
C21_PlanningOnOwnTrigger ==
    \A j \in 1..Len(oPlans) :
        /\ oPlans[j].handler # "render"
        /\ j > 1 => oPlans[j].at - oPlans[j - 1].at >= PlanInterval

(***************************************************************************)
(* Filter claims: first call and constant input                            *)
(***************************************************************************)

\* C22: the first call on a filter with empty history stores its input as
\* the seed of the history and returns a vector equal to the input.
C22_FirstCallReturnsInput ==
    (fCalls = 1 /\ Len(fRaw) > 0) => (fOut = fRaw /\ hist = <<fRaw>>)

C25_IntegralClamped == Abs(syncState.errorIntegral) <= Scale
\* C24: in the scenario (2.0 Hz master, slave set to 2.3 Hz, Kp = 0.5,
\* Ki = 0.1, dt = 0.002), after the 750 ticks of 1.5 s the wrapped phase
\* error between master and slave is below 0.1 rad in magnitude.
C24_PhaseErrorSmallAfterRun ==
    sCalls = RunTicks
        => Abs(WrapLoop(BeatPhaseAt(RunTicks) - syncState.robotPhase)) < 1000


\* the candidate the last planPath's search had computed when it stopped before
\* its last step
StoppedAt ==
    NextConfig(pPath[Len(pPath)],
               computePotentialGradient(pState.potentialField, pPath[Len(pPath)]),
               Momentum(pPath))

\* the last planPath's search stopped on a rejected candidate (break, l.175)
StoppedEarly ==
    /\ pOutcome = "returned"
    /\ ~pReached
    /\ Len(pPath) <= PlannerConfig.horizonSteps

\* the first valid sample around cfg at the radii resolution, 2 * resolution,
\* ..., 5 * resolution of the planner's configuration
NearestValidWithin(cfg, robotModel) ==
    SearchFrom(cfg, robotModel, PlannerConfig.resolution,
               5 * PlannerConfig.resolution, PlannerConfig.resolution, 0)

\* C26: the gradient search stops on a rejected candidate only when none of
\* the samples around it, 20 at each of the radii resolution to 5 * resolution,
\* is valid; otherwise it goes on from the first valid one
C26_ContinuesFromNearestValid ==
    StoppedEarly => NearestValidWithin(StoppedAt, pModel) = NoConfig

\* C27: a planPath call that returns made at most horizonSteps steps, has at
\* most horizonSteps + 1 waypoints, and where its search stopped on a rejected
\* candidate the nearest-valid search tested at most 5 * 20 candidates
C27_SearchBounded ==
    pOutcome = "returned" =>
        /\ Len(pPath) <= PlannerConfig.horizonSteps + 1
        /\ Len(pPlan.waypoints) = Len(pPath)
        /\ StoppedEarly => CandidatesTried(StoppedAt, pModel) <= 5 * SearchSamples

\* a search that used all its steps without reaching the goal
C27_Witness ==
    /\ pOutcome = "returned"
    /\ ~pReached
    /\ Len(pPath) = PlannerConfig.horizonSteps + 1
    /\ Len(pPlan.waypoints) = PlannerConfig.horizonSteps + 1

\* C28: a planPath call that returns leaves the obstacle list as it was, and
\* after it the goal of the call is the only target
C28_PlanPathKeepsSources ==
    [][pOutcome' = "returned"
          => /\ pState'.obstacles = pState.obstacles
             /\ Len(pState'.targets) = 1
             /\ pState'.targets[1].position \in Goals]_vars

\* C29: the timestamps of a returned plan are as many as its waypoints, start
\* at 0 and never decrease
C29_TimestampsOrdered ==
    pOutcome = "returned" =>
        /\ Len(pPlan.timestamps) = Len(pPlan.waypoints)
        /\ pPlan.timestamps[1] = 0
        /\ \A i \in 1..(Len(pPlan.timestamps) - 1) :
              /\ pPlan.timestamps[i] # NaN
              /\ pPlan.timestamps[i + 1] # NaN
              /\ pPlan.timestamps[i] <= pPlan.timestamps[i + 1]

====
